---- MODULE Spec2Model ----
(***************************************************************************)
(* A model of the zhol hook lifecycle engine: threads drive hook(),        *)
(* unhook() and the typed read/write facade of one Hook against a victim   *)
(* process whose memory, page information and handle mutex are modelled    *)
(* explicitly.  A with_handle! block (acquire the guard, make the OS call, *)
(* release) is one step: the mutex serialises the blocks, so their         *)
(* interleavings are those of the steps.  A block that cannot get the      *)
(* guard either waits (no step) or, with a timeout, gives up.              *)
(***************************************************************************)
EXTENDS Integers, Sequences, FiniteSets, TLC

\* ------------------------------------------------------------------ bounds
MaxOps == 3
MaxFaults == 1
MaxHolders == 4
MaxHay == 4
MaxPat == 3
MaxContext == 2

\* --------------------------------------------------------- Win32 constants
PAGE_NOACCESS == 1
PAGE_READONLY == 2
PAGE_READWRITE == 4
PAGE_WRITECOPY == 8
PAGE_EXECUTE_READ == 32
PAGE_EXECUTE_READWRITE == 64
PAGE_EXECUTE_WRITECOPY == 128
PAGE_GUARD == 256
MEM_COMMIT == 4096
MEM_PRIVATE == 131072
MEM_MAPPED == 262144

INVALID_ALLOCATION_TYPE == 1
INVALID_PROTECTION_FLAGS == 2
INVALID_PAGE_TYPE == 4

\* Byte = Option<u8>: a pattern position is a byte 0..255 or None (wildcard).
NoneByte == 256

\* Option::None for addresses, modules and durations.
NoneVal == -1

\* ------------------------------------------------------------ bit helpers
RECURSIVE BitAnd(_, _)
BitAnd(a, b) ==
  IF a = 0 \/ b = 0 THEN 0
  ELSE (IF a % 2 = 1 /\ b % 2 = 1 THEN 1 ELSE 0) + 2 * BitAnd(a \div 2, b \div 2)

RECURSIVE BitOr(_, _)
BitOr(a, b) ==
  IF a = 0 THEN b
  ELSE IF b = 0 THEN a
  ELSE (IF a % 2 = 1 \/ b % 2 = 1 THEN 1 ELSE 0) + 2 * BitOr(a \div 2, b \div 2)

\* The i-th (0-based) base-256 digit of a natural number.
Digit(n, i) ==
  CASE i = 0 -> n % 256
    [] i = 1 -> (n \div 256) % 256
    [] i = 2 -> (n \div 65536) % 256
    [] OTHER -> (n \div 16777216) % 256

\* The four little-endian bytes of an i32 immediate (two's complement).
LE32(x) ==
  IF x >= 0 THEN [i \in 1..4 |-> Digit(x, i - 1)]
  ELSE [i \in 1..4 |-> 255 - Digit((-x) - 1, i - 1)]

\* i32 from four little-endian bytes (bytemuck::try_pod_read_unaligned::<i32>).
FromLE32(b) ==
  IF b[4] >= 128
  THEN -(1 + (255 - b[1]) + 256 * (255 - b[2]) + 65536 * (255 - b[3])
           + 16777216 * (255 - b[4]))
  ELSE b[1] + 256 * b[2] + 65536 * b[3] + 16777216 * b[4]

\* A value of a type of the default marker set (i32, u32, f32: 4 bytes; i64,
\* u64, f64: 8 bytes) is its bit pattern in 16-bit limbs, least significant
\* first.
\* (variant) The bytes of the value, most significant first.
byte_repr_be(x) ==
  [i \in 1..(2 * Len(x)) |->
     IF i % 2 = 1 THEN x[Len(x) - (i \div 2)] \div 256
     ELSE x[Len(x) + 1 - (i \div 2)] % 256]

\* Transmutable::byte_repr: bytemuck::bytes_of(self).
byte_repr(x) ==
  [i \in 1..(2 * Len(x)) |->
     IF i % 2 = 1 THEN x[(i + 1) \div 2] % 256 ELSE x[i \div 2] \div 256]

\* Transmutable::transmute_from: bytemuck::try_pod_read_unaligned::<T> for a
\* type of n bytes fails unless it is given exactly n bytes.
transmute_from(bytes, n) ==
  IF Len(bytes) # n THEN [ok |-> FALSE, value |-> << >>]
  ELSE [ok |-> TRUE,
        value |-> [j \in 1..(n \div 2) |-> bytes[2 * j - 1] + 256 * bytes[2 * j]]]

\* --------------------------------------------------------- pattern engine
byte_matches(byte, pattern) ==
  IF pattern = NoneByte THEN TRUE ELSE pattern = byte

\* saturating_sub of usize
SatSub(a, b) == IF a >= b THEN a - b ELSE 0

\* (variant) Only the first byte of the pattern is compared.
MatchAtFirstByte(bytes, pattern, i) ==
  Len(pattern) = 0 \/ byte_matches(bytes[i + 1], pattern[1])

\* The match test of one offset i (0-based) of find_pattern_in_bytes; indexing
\* past the end of the buffer panics ("panic" is reported by the caller).
MatchAt(bytes, pattern, i) ==
  \A j \in 1..Len(pattern) : byte_matches(bytes[i + j], pattern[j])

PanicsAt(bytes, pattern, i) ==
  \E j \in 1..Len(pattern) :
     /\ i + j > Len(bytes)
     /\ \A k \in 1..(j - 1) : byte_matches(bytes[i + k], pattern[k])

\* (variant) The scan stops at the first match.
RECURSIVE FindFirstFrom(_, _, _)
FindFirstFrom(bytes, pattern, i) ==
  IF i > SatSub(Len(bytes), Len(pattern)) THEN << >>
  ELSE IF MatchAt(bytes, pattern, i)
       THEN << << i, SubSeq(bytes, i + 1, i + Len(pattern)) >> >>
       ELSE FindFirstFrom(bytes, pattern, i + 1)

RECURSIVE FindFrom(_, _, _)
FindFrom(bytes, pattern, i) ==
  IF i > SatSub(Len(bytes), Len(pattern)) THEN << >>
  ELSE (IF MatchAt(bytes, pattern, i)
        THEN << << i, SubSeq(bytes, i + 1, i + Len(pattern)) >> >>
        ELSE << >>) \o FindFrom(bytes, pattern, i + 1)

\* find_pattern_in_bytes: [panic |-> BOOLEAN, matches |-> sequence of <<offset, bytes>>]
find_pattern_in_bytes(bytes, pattern) ==
  IF \E i \in 0..SatSub(Len(bytes), Len(pattern)) : PanicsAt(bytes, pattern, i)
  THEN [panic |-> TRUE, matches |-> << >>]
  ELSE [panic |-> FALSE, matches |-> FindFrom(bytes, pattern, 0)]

Min(a, b) == IF a <= b THEN a ELSE b

\* (variant) The captured bytes are returned as they are.
unhook_bytes_captured(pattern, found_bytes) ==
  [i \in 1..Min(Len(pattern), Len(found_bytes)) |-> found_bytes[i]]

\* create_unhook_bytes: zip(pattern, found_bytes) stops at the shorter sequence.
create_unhook_bytes(pattern, found_bytes) ==
  [i \in 1..Min(Len(pattern), Len(found_bytes)) |->
     IF pattern[i] = NoneByte THEN found_bytes[i] ELSE pattern[i]]

\* ---------------------------------------------------- page-safety predicate
is_readable(protection) ==
  \E flag \in {PAGE_READONLY, PAGE_READWRITE, PAGE_WRITECOPY, PAGE_EXECUTE_READ,
               PAGE_EXECUTE_READWRITE, PAGE_EXECUTE_WRITECOPY} :
     BitAnd(protection, flag) = flag

\* (variant) Only PAGE_READWRITE counts as writable.
is_writable_rw_only(protection) ==
  BitAnd(protection, PAGE_READWRITE) # 0

is_writable(protection) ==
  BitAnd(protection,
         BitOr(BitOr(PAGE_READWRITE, PAGE_WRITECOPY),
               BitOr(PAGE_EXECUTE_READWRITE, PAGE_EXECUTE_WRITECOPY))) # 0

GuardOrNoAccess(mbi) ==
  \/ BitAnd(mbi.Protect, PAGE_GUARD) # 0
  \/ mbi.Protect = PAGE_GUARD
  \/ mbi.Protect = PAGE_NOACCESS

\* (variant) The allocation state is not examined.
mbi_safe_write_no_state(mbi) ==
  LET f2 == IF mbi.Type = 0 THEN INVALID_PAGE_TYPE ELSE 0
      f3 == IF (mbi.Type = MEM_MAPPED \/ mbi.Type = MEM_PRIVATE)
               /\ BitAnd(mbi.Protect, PAGE_WRITECOPY) # 0
            THEN BitOr(INVALID_PAGE_TYPE, INVALID_PROTECTION_FLAGS) ELSE 0
      f4 == IF GuardOrNoAccess(mbi) THEN INVALID_PROTECTION_FLAGS ELSE 0
      f5 == IF ~is_writable(mbi.Protect) THEN INVALID_PROTECTION_FLAGS ELSE 0
  IN BitOr(BitOr(f2, f3), BitOr(f4, f5))

mbi_safe_write(mbi) ==
  LET f1 == IF mbi.State # MEM_COMMIT THEN INVALID_ALLOCATION_TYPE ELSE 0
      f2 == IF mbi.Type = 0 THEN INVALID_PAGE_TYPE ELSE 0
      f3 == IF (mbi.Type = MEM_MAPPED \/ mbi.Type = MEM_PRIVATE)
               /\ BitAnd(mbi.Protect, PAGE_WRITECOPY) # 0
            THEN BitOr(INVALID_PAGE_TYPE, INVALID_PROTECTION_FLAGS) ELSE 0
      f4 == IF GuardOrNoAccess(mbi) THEN INVALID_PROTECTION_FLAGS ELSE 0
      f5 == IF ~is_writable(mbi.Protect) THEN INVALID_PROTECTION_FLAGS ELSE 0
  IN BitOr(BitOr(BitOr(f1, f2), BitOr(f3, f4)), f5)

mbi_safe_read(mbi) ==
  LET f1 == IF GuardOrNoAccess(mbi) THEN INVALID_PROTECTION_FLAGS ELSE 0
      f2 == IF ~is_readable(mbi.Protect) THEN INVALID_PROTECTION_FLAGS ELSE 0
  IN BitOr(f1, f2)

\* (variant) An unsafe page is reported as Ok(false): the caller polls again.
mbi_safety_check_polls(mbi, needs_write) ==
  LET safety_flag == IF needs_write THEN mbi_safe_write(mbi) ELSE mbi_safe_read(mbi)
  IN [tag |-> "Ok", val |-> safety_flag = 0, mask |-> safety_flag,
      state |-> mbi.State, protect |-> mbi.Protect, type |-> mbi.Type]

\* MemOpResult<bool>: Ok(true), or Err(MemoryStateInvalid(state, protect, type, mask)).
mbi_safety_check(mbi, needs_write) ==
  LET safety_flag == IF needs_write THEN mbi_safe_write(mbi) ELSE mbi_safe_read(mbi)
  IN IF safety_flag = 0
     THEN [tag |-> "Ok", val |-> TRUE, mask |-> 0, state |-> mbi.State,
           protect |-> mbi.Protect, type |-> mbi.Type]
     ELSE [tag |-> "MemoryStateInvalid", val |-> FALSE, mask |-> safety_flag,
           state |-> mbi.State, protect |-> mbi.Protect, type |-> mbi.Type]

\* ------------------------------------------------------------------ state
VARIABLES
  impl,      \* the HookImpl: [pattern, var_size, hook_alloc_size]
  mem,       \* victim memory: region -> byte sequence
  page,      \* victim page information: region -> [State, Protect, Type]
  data,      \* HookData behind the RwLock
  readers,   \* threads holding a read guard of the RwLock<HookData>
  guard,     \* holder of the SafeHandle mutex
  th,        \* per thread: the running operation, its position and locals
  last,      \* the return delivered by the latest step, if it was one
  started,   \* operations started so far
  faults,    \* environment faults injected so far
  alive,     \* FALSE once the Hook (and its HookData) has been dropped
  hist,      \* history: the latest hook() -> unhook() sequence run on its own
  os,        \* the remote OS call made by the latest step, if it made one
  unit       \* a function applied on its own: its inputs and its result

vars == << impl, mem, page, data, readers, guard, th, last, started, faults,
           alive, hist, os, unit >>

\* The state of the Hook and of the victim.
hookvars == << impl, mem, page, data, readers, guard, th, last, started, faults,
               alive, hist, os >>

Threads == {"t1", "t2"}
Hog == "hog"
Free == "free"

\* The victim: one module image, and the two regions Hook::new allocated.
ModuleBases == {4096}
CaveAddrs == {8192}
VarAddrs == {12288}
Images == { << 1, 72, 255, 139, 2, 72, 122, 139 >> }

\* HookImpl::pattern() of the hooks under test (NoneByte is the wildcard).
Patterns ==
  { << 72, NoneByte, 139 >>,
    << 72, NoneByte, 139, NoneByte, 72 >>,
    << NoneByte, 72, NoneByte, 139, 2, 72 >>,
    << 144, 144 >> }

\* A pattern whose first five bytes are wildcards: it matches the image before
\* and after the 5-byte jump is written over the site.
WildPrefix == << NoneByte, NoneByte, NoneByte, NoneByte, NoneByte, 72 >>

Regions == {"image", "cave", "var"}

Base(r) ==
  CASE r = "image" -> data.module_addr
    [] r = "cave" -> data.hook_mem.addr
    [] OTHER -> data.var_mem.addr

\* The region holding the whole span [a, a + n), or "none".
RegionOf(a, n) ==
  IF \E r \in Regions : Base(r) <= a /\ a + n <= Base(r) + Len(mem[r])
  THEN CHOOSE r \in Regions : Base(r) <= a /\ a + n <= Base(r) + Len(mem[r])
  ELSE "none"

FreeMbi == [State |-> 65536, Protect |-> PAGE_NOACCESS, Type |-> 0]

\* VirtualQueryEx: the page information at an address.
PageAt(a) == IF RegionOf(a, 1) = "none" THEN FreeMbi ELSE page[RegionOf(a, 1)]

\* The bytes of [a, a + n) of a mapped span.
Peek(a, n) ==
  LET r == RegionOf(a, n) IN SubSeq(mem[r], a - Base(r) + 1, a - Base(r) + n)

\* Region r with the first n bytes of buf stored at address a.
Poke(a, buf, n) ==
  LET r == RegionOf(a, Len(buf))
      o == a - Base(r)
  IN [mem EXCEPT ![r] = [i \in 1..Len(mem[r]) |->
        IF i > o /\ i <= o + n THEN buf[i - o] ELSE mem[r][i]]]

\* ------------------------------------------------------------ thread records
Idle ==
  [op |-> "none", pc |-> "idle", step |-> "-", tmo |-> "None",
   at_pointer |-> FALSE, offset |-> 0, value |-> << >>, ctx_addr |-> 0,
   tsize |-> 0, typed |-> << >>,
   module |-> NoneVal, size |-> 0, match |-> << >>,
   hook_bytes |-> << >>, jump_bytes |-> << >>,
   addr |-> NoneVal, pre |-> << >>, scans |-> 0, image |-> << >>,
   io |-> [addr |-> 0, buf |-> << >>, size |-> 0, old |-> 0, n |-> 0,
           before |-> 0, trace |-> << >>, alone |-> TRUE],
   wlog |-> << >>]

NoHist == [phase |-> "none", addr |-> NoneVal, pre |-> << >>]

NoUnit == [fn |-> "none"]

NoCall == [call |-> "none", guarded |-> TRUE]

NoReturn ==
  [op |-> "none", res |-> "none", err |-> "none", site |-> "-", why |-> "-",
   wlog |-> << >>, value |-> << >>, pre |-> << >>, scans |-> 0,
   image |-> << >>, io |-> Idle.io]

\* The Hook and the victim after Hook::new.
Made ==
  /\ impl \in [pattern : Patterns \cup {WildPrefix}, var_size : {8}, hook_alloc_size : {16}]
  /\ \E img \in Images :
       mem = [image |-> img,
              cave |-> [i \in 1..impl.hook_alloc_size |-> 0],
              var |-> [i \in 1..impl.var_size |-> 0]]
  /\ page = [image |-> [State |-> MEM_COMMIT, Protect |-> PAGE_EXECUTE_READ,
                        Type |-> 16777216],   \* MEM_IMAGE
             cave |-> [State |-> MEM_COMMIT, Protect |-> PAGE_EXECUTE_READWRITE,
                       Type |-> MEM_PRIVATE],
             var |-> [State |-> MEM_COMMIT, Protect |-> PAGE_EXECUTE_READWRITE,
                      Type |-> MEM_PRIVATE]]
  /\ \E mb \in ModuleBases, ca \in CaveAddrs, va \in VarAddrs :
       data = [module_addr |-> mb,
               hook_mem |-> [addr |-> ca, size |-> impl.hook_alloc_size],
               var_mem |-> [addr |-> va, size |-> impl.var_size],
               pattern |-> impl.pattern,
               var_size |-> impl.var_size,
               hook_alloc_size |-> impl.hook_alloc_size,
               addr |-> NoneVal,
               found_bytes |-> << >>,
               found |-> FALSE]
  /\ readers = {}
  /\ guard = Free
  /\ th = [t \in Threads |-> Idle]
  /\ last = NoReturn
  /\ faults = 0
  /\ alive = TRUE
  /\ hist = NoHist
  /\ os = NoCall

\* The state after Hook::new, no call made yet.
Boot ==
  /\ Made
  /\ started = 0

Init ==
  /\ Boot
  /\ impl.pattern \in Patterns
  /\ unit = NoUnit

\* ------------------------------------------------------- positions of a call
\* read_bytes and write_bytes run at these call sites; the field "step" is the
\* position inside the primitive.
ReadSites == {"h_read", "r_ptr", "r_val", "w_ptr"}
WriteSites == {"h_cave", "h_jump", "u_write", "w_val"}
CallSites == {"h_module", "h_info", "h_protect"}

\* Every position at which the thread is inside (or about to enter) a
\* with_handle! block.
NeedsGuard(r) == r.pc \in ReadSites \cup WriteSites \cup CallSites

\* The timeout handed to acquire_with_timeout at the current position: hook()
\* passes Some(timeout) to module_by_name and write_bytes, and None to
\* get_module_info, change_memory_protection and read_bytes.
StepTimeout(r) ==
  IF r.pc \in {"h_info", "h_protect", "h_read"} THEN "None" ELSE r.tmo

\* What the operation returns for an error raised at the current position:
\* module_by_name re-wraps every failure of get_named_modules in anyhow!, and
\* get_module_info returns anyhow::Result; both reach hook() through
\* From<anyhow::Error>, which yields Other.
MapErr(r, err) ==
  IF r.pc \in {"h_module", "h_info"} THEN "Other" ELSE err

\* Entering read_bytes / write_bytes at a call site.
EnterRead(r, site, a, n) ==
  [r EXCEPT !.pc = site, !.step = "wait1",
            !.io = [addr |-> a, buf |-> << >>, size |-> n, old |-> 0, n |-> 0,
                    before |-> 0, trace |-> << >>, alone |-> TRUE]]

\* A behaviour that starts with unit.fn = "trace" keeps a history with every
\* write_bytes call: "before" is the protection of the page when the call is
\* made, "trace" the remote steps it has completed, and "alone" is FALSE once
\* another thread or the victim has changed the region.
Traced == unit.fn = "trace"

EnterWrite(r, site, a, bytes) ==
  [r EXCEPT !.pc = site, !.step = "protect",
            !.io = [addr |-> a, buf |-> bytes, size |-> Len(bytes), old |-> 0,
                    n |-> 0,
                    before |-> IF Traced THEN PageAt(a).Protect ELSE 0,
                    trace |-> << >>, alone |-> TRUE]]

\* The call of record r has completed the remote step e.
Did(r, e) == IF Traced THEN [r EXCEPT !.io.trace = Append(@, e)] ELSE r

\* --------------------------------------------------------------- outcomes
\* One outcome of a step of thread record r: the next thread record, or the
\* return of the operation (which drops every guard of HookData it holds).
Go(r, fault) ==
  [rec |-> r, done |-> FALSE, last |-> NoReturn, unlock |-> FALSE,
   lock |-> FALSE, fault |-> fault, mem |-> mem, page |-> page, wait |-> "-"]

Ret(r, res, err, why, fault) ==
  [rec |-> Idle, done |-> TRUE,
   last |-> [op |-> r.op, res |-> res, err |-> err, site |-> r.pc, why |-> why,
             wlog |-> r.wlog, value |-> r.value, pre |-> r.pre,
             scans |-> r.scans, image |-> r.image,
             io |-> IF Traced THEN r.io ELSE Idle.io],
   unlock |-> TRUE, lock |-> FALSE, fault |-> fault, mem |-> mem, page |-> page, wait |-> "-"]

\* (variant) The error is dropped and the operation reports success.
FailSwallowed(r, err, why, fault) == Ret(r, "Ok", err, why, fault)

\* An error raised at the current position leaves the operation through `?`.
Fail(r, err, why, fault) == Ret(r, MapErr(r, err), err, why, fault)

\* The thread records after a step that leaves the victim's memory as m and its
\* pages as p: a write_bytes call of another thread on a changed region is no
\* longer alone.
Disturb(recs, t, m, p) ==
  [u \in Threads |->
     IF Traced /\ u # t /\ recs[u].pc \in WriteSites
        /\ \E g \in Regions :
             /\ RegionOf(recs[u].io.addr, recs[u].io.size) = g
             /\ (m[g] # mem[g] \/ p[g] # page[g])
     THEN [recs[u] EXCEPT !.io.alone = FALSE]
     ELSE recs[u]]

\* A behaviour that starts with unit.fn = "roundtrip" remembers the latest
\* write<T> that returned Ok (its context and the value given) until the next
\* write<T> is called, and the value a later read<T> with the same context
\* returns.
NoValue == [set |-> FALSE, ctx |-> << >>, typed |-> << >>]

CtxOf(r) == << r.ctx_addr, r.offset, r.at_pointer, r.tmo, r.tsize >>

\* A behaviour that starts with unit.fn = "unhooks" remembers the latest
\* unhook() that wrote and returned Ok with no other call running beside it
\* (the bytes it wrote, where, and the patch site it left) until the next call
\* is made; "solo" says that the running unhook() runs with no other call
\* beside it, "second" that it was called directly after the remembered one,
\* and "pair" that it has returned Ok too, "first" being the one before it.
NoUnhook == [set |-> FALSE, addr |-> NoneVal, buf |-> << >>, site |-> << >>]

Unhooks(t, o) ==
  LET new == [set |-> TRUE, addr |-> th[t].io.addr, buf |-> th[t].io.buf,
              site |-> LET g == RegionOf(th[t].io.addr, th[t].io.size)
                           k == th[t].io.addr - Base(g)
                       IN SubSeq(o.mem[g], k + 1, k + th[t].io.size)]
  IN IF th[t].op = "none"
     THEN IF o.rec.op = "unhook" /\ \A u \in Threads : th[u].pc = "idle"
          THEN [unit EXCEPT !.solo = TRUE, !.second = unit.prev.set,
                            !.pair = FALSE]
          ELSE [unit EXCEPT !.solo = FALSE, !.second = FALSE, !.pair = FALSE,
                            !.prev = NoUnhook]
     ELSE IF o.done /\ th[t].op = "unhook" /\ o.last.res = "Ok" /\ unit.solo
          THEN [unit EXCEPT !.first = unit.prev, !.pair = unit.second,
                            !.solo = FALSE, !.second = FALSE, !.prev = new]
     ELSE IF o.done
          THEN [unit EXCEPT !.solo = FALSE, !.second = FALSE, !.pair = FALSE,
                            !.prev = NoUnhook]
     ELSE unit

Remember(t, o) ==
  IF unit.fn = "unhooks" THEN Unhooks(t, o)
  ELSE IF unit.fn # "roundtrip" THEN unit
  ELSE IF th[t].op = "none" /\ o.rec.op = "write"
       THEN [unit EXCEPT !.wrote = NoValue, !.got = NoValue]
  ELSE IF o.done /\ th[t].op = "write" /\ o.last.res = "Ok"
       THEN [unit EXCEPT !.wrote = [set |-> TRUE, ctx |-> CtxOf(th[t]),
                                    typed |-> th[t].typed]]
  ELSE IF o.done /\ th[t].op = "read" /\ o.last.res = "Ok"
       THEN [unit EXCEPT !.got =
               [set |-> TRUE, ctx |-> CtxOf(th[t]),
                typed |-> transmute_from(o.last.value, th[t].tsize).value]]
  ELSE unit

Apply(t, o) ==
  /\ o.fault => faults < MaxFaults
  /\ faults' = IF o.fault THEN faults + 1 ELSE faults
  /\ th' = Disturb([th EXCEPT ![t] = o.rec], t, o.mem, o.page)
  /\ last' = IF o.done THEN o.last ELSE NoReturn
  /\ readers' = IF o.unlock THEN readers \ {t}
                ELSE IF o.lock THEN readers \cup {t}
                ELSE readers
  /\ mem' = o.mem
  /\ page' = o.page
  /\ unit' = Remember(t, o)

\* ------------------------------------------------------------ trampolines
\* calc_rel_inst, with the assembler offset given.
calc_rel_inst(offset, origin, dest, inst_size) ==
  dest - (origin + (offset - 1) + inst_size)

\* newmem_jmp + handle_x86_asm_build: jmp rel32 to the cave.
newmem_jmp(d) ==
  IF d.addr = NoneVal THEN [ok |-> FALSE, bytes |-> << >>]
  ELSE [ok |-> TRUE, bytes |-> << 233 >> \o LE32(d.hook_mem.addr - (d.addr + 5))]

\* HookImpl::build_jmp (the default implementation).
build_jmp(d) == newmem_jmp(d)

\* HookImpl::build_hook of the hook under test: the overwritten bytes, then
\* end_jmp back to the byte after the pattern.
build_hook(d) ==
  LET jmp_size == Len(build_jmp(d).bytes)
      rel == calc_rel_inst(Len(d.found_bytes), d.hook_mem.addr,
                           d.addr + Len(d.pattern), jmp_size)
  IN [ok |-> build_jmp(d).ok, bytes |-> d.found_bytes \o << 233 >> \o LE32(rel)]

\* ---------------------------------------------------------- OS semantics
OsCanRead(a, n) ==
  /\ RegionOf(a, n) # "none"
  /\ is_readable(PageAt(a).Protect)
  /\ ~GuardOrNoAccess(PageAt(a))

OsCanWrite(a, n) ==
  /\ RegionOf(a, n) # "none"
  /\ is_writable(PageAt(a).Protect)
  /\ ~GuardOrNoAccess(PageAt(a))

\* ------------------------------------------------------ hook(): the two writes
\* (variant) The jump at the patch site is written before the cave payload.
HookWritesSwapped(r) ==
  << [site |-> "h_jump", addr |-> r.addr, bytes |-> r.jump_bytes],
     [site |-> "h_cave", addr |-> data.hook_mem.addr, bytes |-> r.hook_bytes] >>

\* The write_bytes calls of hook(), in program order: the cave payload, then
\* the jump at the patch site.
HookWrites(r) ==
  << [site |-> "h_cave", addr |-> data.hook_mem.addr, bytes |-> r.hook_bytes],
     [site |-> "h_jump", addr |-> r.addr, bytes |-> r.jump_bytes] >>

\* write_bytes returned Ok at the site r.pc (logged as "ok").
AfterWrite(r) ==
  LET r2 == [r EXCEPT !.wlog = Append(@, "ok")]
  IN IF r.op = "hook" /\ r.pc = HookWrites(r)[1].site
     THEN Go(EnterWrite(r2, HookWrites(r)[2].site, HookWrites(r)[2].addr,
                        HookWrites(r)[2].bytes), FALSE)
     ELSE Ret(r2, "Ok", "none", "-", FALSE)

\* read_bytes without buffer.truncate(bytes_read): the whole buffer is returned.
AfterReadWhole(r) ==
  LET buffer == r.io.buf
  IN CASE r.pc = "h_read" ->
            LET scan == find_pattern_in_bytes(buffer, data.pattern)
            IN IF scan.panic THEN Ret(r, "Panic", "Panic", "scan", FALSE)
               ELSE Go([r EXCEPT !.pc = "h_set", !.step = "-",
                                 !.scans = @ + 1, !.image = buffer,
                                 !.match = IF scan.matches = << >> THEN << >>
                                           ELSE scan.matches[1]], FALSE)
       [] r.pc \in {"r_ptr", "w_ptr"} ->
            IF Len(buffer) # 4 THEN Fail(r, "Other", "transmute", FALSE)
            ELSE LET ptr == FromLE32(buffer)
                 IN [Go(IF r.pc = "r_ptr"
                        THEN EnterRead(r, "r_val", ptr + r.offset, r.tsize)
                        ELSE EnterWrite(r, "w_val", ptr + r.offset, r.value),
                        FALSE)
                     EXCEPT !.unlock = TRUE]
       [] OTHER ->
            IF ~transmute_from(buffer, r.tsize).ok
            THEN Fail(r, "Other", "transmute", FALSE)
            ELSE Ret([r EXCEPT !.value = buffer], "Ok", "none", "-", FALSE)

\* read_bytes returned Ok(buffer) at the site r.pc: the buffer is truncated to
\* the bytes transferred, then used by the caller.
AfterRead(r) ==
  LET buffer == SubSeq(r.io.buf, 1, r.io.n)
  IN CASE r.pc = "h_read" ->
            LET scan == find_pattern_in_bytes(buffer, data.pattern)
            IN IF scan.panic THEN Ret(r, "Panic", "Panic", "scan", FALSE)
               ELSE Go([r EXCEPT !.pc = "h_set", !.step = "-",
                                 !.scans = @ + 1, !.image = buffer,
                                 !.match = IF scan.matches = << >> THEN << >>
                                           ELSE scan.matches[1]], FALSE)
       [] r.pc \in {"r_ptr", "w_ptr"} ->
            IF Len(buffer) # 4 THEN Fail(r, "Other", "transmute", FALSE)
            ELSE LET ptr == FromLE32(buffer)
                 IN [Go(IF r.pc = "r_ptr"
                        THEN EnterRead(r, "r_val", ptr + r.offset, r.tsize)
                        ELSE EnterWrite(r, "w_val", ptr + r.offset, r.value),
                        FALSE)
                     EXCEPT !.unlock = TRUE]
       [] OTHER ->
            IF ~transmute_from(buffer, r.tsize).ok
            THEN Fail(r, "Other", "transmute", FALSE)
            ELSE Ret([r EXCEPT !.value = buffer], "Ok", "none", "-", FALSE)

\* ------------------------------------------------- outcomes of the OS calls
\* get_named_modules under module_by_name(.., stem = true, Some(timeout)).
EnumOutcomes(r) ==
  { Go([r EXCEPT !.pc = "h_info", !.module = data.module_addr], FALSE),
    Fail(r, "WinAPI", "os", TRUE),
    Ret(r, "Other", "Other", "no_module", TRUE) }

\* get_module_info(.., None).
InfoOutcomes(r) ==
  { Go([r EXCEPT !.pc = "h_protect", !.size = Len(mem["image"])], FALSE),
    Fail(r, "WinAPI", "os", TRUE) }

\* (variant) write_bytes does not restore old_protect.
ProtectArgNoRestore(r) ==
  IF r.pc = "h_protect" THEN PAGE_READWRITE ELSE PAGE_EXECUTE_READWRITE

\* (variant) hook() leaves the module image execute+read.
ProtectArgExecuteRead(r) ==
  CASE r.pc = "h_protect" -> PAGE_EXECUTE_READ
    [] r.step = "protect" -> PAGE_EXECUTE_READWRITE
    [] OTHER -> r.io.old

\* The protection handed to change_memory_protection: PAGE_READWRITE for the
\* module image in hook(); in write_bytes PAGE_EXECUTE_READWRITE first, then
\* old_protect.
ProtectArg(r) ==
  CASE r.pc = "h_protect" -> PAGE_READWRITE
    [] r.step = "protect" -> PAGE_EXECUTE_READWRITE
    [] OTHER -> r.io.old

\* (variant) The number of bytes written is not examined.
IncompleteIgnored(r) == FALSE

\* write_bytes: bytes_written != bytes.len().
Incomplete(r) == r.io.n # Len(r.io.buf)

\* change_memory_protection: of the module image in hook(), and the two calls
\* of write_bytes.
ProtectOutcomes(r) ==
  LET a == IF r.pc = "h_protect" THEN r.module ELSE r.io.addr
      n == IF r.pc = "h_protect" THEN r.size ELSE r.io.size
      prot == ProtectArg(r)
      reg == RegionOf(a, n)
      mapped == reg # "none" /\ n > 0
      newpage == [page EXCEPT ![reg].Protect = prot]
      next == CASE r.pc = "h_protect" ->
                     Go(EnterRead(r, "h_read", r.module, r.size), FALSE)
                [] r.step = "protect" ->
                     Go(Did([r EXCEPT !.step = "wait1",
                                      !.io.old = page[reg].Protect],
                            << "protect", prot >>), FALSE)
                [] OTHER ->
                     IF Incomplete(r)
                     THEN Fail(Did(r, << "protect", prot >>), "Other",
                               "incomplete", FALSE)
                     ELSE Go(Did([r EXCEPT !.step = "wait2"],
                                 << "protect", prot >>), FALSE)
  IN { Fail(r, "Other", "os", mapped) }
     \cup (IF mapped THEN { [next EXCEPT !.page = newpage] } ELSE {})

\* One poll of wait_for_safe_mem_unsafe: VirtualQueryEx, then
\* mbi_safety_check(mbi, needs_write)?.
QueryOutcomes(r) ==
  LET nw == r.pc \in WriteSites
      r2 == Did(r, << "wait", nw >>)
      next == CASE r.step = "wait1" ->
                     Go([r2 EXCEPT !.step = IF nw THEN "write" ELSE "read"], FALSE)
                [] nw -> AfterWrite(r2)
                [] OTHER -> AfterRead(r2)
      Polled(chk) ==
        { [Fail(r, "WinAPI", "os", TRUE) EXCEPT !.wait = "WinAPI"] }
        \cup (IF chk.tag = "Ok"
              THEN (IF chk.val
                    THEN { [next EXCEPT !.wait = "Ok"] }
                    ELSE { [Go(r, FALSE) EXCEPT !.wait = "park"],
                           [Fail(r, "Other", "wait_timeout", FALSE)
                              EXCEPT !.wait = "Other"] })
              ELSE { [Fail(r, chk.tag, "state", FALSE) EXCEPT !.wait = chk.tag] })
  IN UNION { Polled(chk) : chk \in { mbi_safety_check(PageAt(r.io.addr), nw) } }

\* ReadProcessMemory in read_bytes.
ReadOutcomes(r) ==
  LET a == r.io.addr
      n == r.io.size
      can == OsCanRead(a, n)
  IN { Fail(r, "Other", "os", can) }
     \cup (IF can
           THEN { Go([r EXCEPT !.step = "wait2", !.io.buf = Peek(a, n),
                               !.io.n = n], FALSE),
                  Go([r EXCEPT !.step = "wait2", !.io.buf = Peek(a, n),
                               !.io.n = n - 1], TRUE) }
           ELSE {})

\* WriteProcessMemory in write_bytes.
WriteOutcomes(r) ==
  LET a == r.io.addr
      n == Len(r.io.buf)
      Written(can) ==
        LET r2 == Did([r EXCEPT !.wlog = Append(@, r.pc),
                                !.pre = IF can THEN Peek(a, n) ELSE << >>],
                      << "write", r.io.buf >>)
        IN { Fail(r2, "Other", "os", can) }
           \cup (IF can
                 THEN { [Go([r2 EXCEPT !.step = "restore", !.io.n = n], FALSE)
                           EXCEPT !.mem = Poke(a, r.io.buf, n)],
                        [Go([r2 EXCEPT !.step = "restore", !.io.n = n - 1], TRUE)
                           EXCEPT !.mem = Poke(a, r.io.buf, n - 1)] }
                 ELSE {})
  IN UNION { Written(can) : can \in { OsCanWrite(a, n) /\ n > 0 } }

\* ---------------------------------------------------------------- actions
\* Inputs of the typed facade: an i32 value (as its byte image) and the context.
Values == { << 4, 48, 0, 0 >> }
Offsets == {0}
Timeouts == {"Some"}

\* The threads are interchangeable: a call made while both are idle is made by
\* "t1".
CanStart(t) ==
  /\ alive
  /\ th[t].pc = "idle"
  /\ started < MaxOps
  /\ t = "t2" => th["t1"].pc # "idle"

Busy(t) == th[t].pc # "idle"

\* History of the latest hook() -> unhook() pair that ran with no other
\* operation in between or beside it.
HistStart(t, op) ==
  IF op = "unhook" /\ hist.phase = "hooked" /\ \A u \in Threads : ~Busy(u)
  THEN [hist EXCEPT !.phase = "unhooking"]
  ELSE NoHist

HistReturn(t, o) ==
  IF ~o.done THEN hist
  ELSE IF o.last.op = "hook" /\ o.last.res = "Ok"
          /\ \A u \in Threads \ {t} : ~Busy(u)
       THEN [phase |-> "hooked", addr |-> th[t].addr, pre |-> o.last.pre]
  ELSE IF o.last.op = "unhook" /\ o.last.res = "Ok" /\ o.last.why = "-"
          /\ hist.phase = "unhooking"
       THEN [hist EXCEPT !.phase = "restored"]
  ELSE NoHist

\* A step of thread t with outcome o.
Step(t, o) ==
  /\ Apply(t, o)
  /\ hist' = HistReturn(t, o)
  /\ UNCHANGED << impl, started, alive >>

\* A step that makes no remote OS call.
Local(t, o) ==
  /\ Step(t, o)
  /\ os' = NoCall

Begin(t, op, o) ==
  /\ CanStart(t)
  /\ Apply(t, o)
  /\ started' = started + 1
  /\ hist' = HistStart(t, op)
  /\ os' = NoCall
  /\ UNCHANGED << impl, data, guard, alive >>

\* hook(timeout) is called.
StartHook(t) ==
  Begin(t, "hook",
        Go([Idle EXCEPT !.op = "hook", !.pc = "h_module", !.tmo = "Some"], FALSE))

\* (variant) unhook() without the early return for addr = None.
UnhookOutcomesNoEarlyReturn(r) ==
  IF ~data.found THEN Ret(r, "Other", "Other", "no_scan", FALSE)
  ELSE [Go(EnterWrite(r, "u_write", data.addr,
                      create_unhook_bytes(impl.pattern, data.found_bytes)), FALSE)
        EXCEPT !.lock = TRUE]

\* unhook(): take the read lock; return at once when addr is None.
UnhookOutcomes(r) ==
  IF data.addr = NoneVal THEN Ret(r, "Ok", "none", "no_addr", FALSE)
  ELSE IF ~data.found THEN Ret(r, "Other", "Other", "no_scan", FALSE)
  ELSE [Go(EnterWrite(r, "u_write", data.addr,
                      create_unhook_bytes(impl.pattern, data.found_bytes)), FALSE)
        EXCEPT !.lock = TRUE]

\* unhook(timeout) is called.
StartUnhook(t) ==
  Begin(t, "unhook",
        UnhookOutcomes([Idle EXCEPT !.op = "unhook", !.pc = "u_start",
                                    !.tmo = "Some"]))

\* read<T> / write<T>: take the read lock of HookData; with at_pointer the
\* pointer is read from var_mem.addr before the guard is dropped.
FacadeOutcomes(r) ==
  IF r.at_pointer
  THEN [Go(EnterRead(r, IF r.op = "read" THEN "r_ptr" ELSE "w_ptr",
                     data.var_mem.addr, 4), FALSE)
        EXCEPT !.lock = TRUE]
  ELSE Go(IF r.op = "read"
          THEN EnterRead(r, "r_val", data.var_mem.addr + r.offset, r.tsize)
          ELSE EnterWrite(r, "w_val", data.var_mem.addr + r.offset, r.value),
          FALSE)

\* read::<T>(hook, ctx) is called, T of n bytes, ctx.addr = a, ctx.at_pointer
\* = ap.
StartReadT(t, a, ap, n) ==
  \E off \in Offsets, tmo \in Timeouts :
    Begin(t, "read",
          FacadeOutcomes([Idle EXCEPT !.op = "read", !.tmo = tmo,
                                      !.at_pointer = ap, !.offset = off,
                                      !.ctx_addr = a, !.tsize = n]))

\* write::<T>(hook, x, ctx) is called: write_value writes byte_repr(x).
StartWriteT(t, a, ap, x) ==
  \E off \in Offsets, tmo \in Timeouts :
    Begin(t, "write",
          FacadeOutcomes([Idle EXCEPT !.op = "write", !.tmo = tmo,
                                      !.at_pointer = ap, !.offset = off,
                                      !.value = byte_repr(x), !.typed = x,
                                      !.ctx_addr = a,
                                      !.tsize = Len(byte_repr(x))]))

\* read::<i32>(hook, ctx) is called with ctx.addr = a.
StartReadAt(t, a) == \E ap \in BOOLEAN : StartReadT(t, a, ap, 4)

\* write::<i32>(hook, value, ctx) is called with ctx.addr = a.
StartWriteAt(t, a) ==
  \E ap \in BOOLEAN, v \in Values :
    StartWriteT(t, a, ap, transmute_from(v, 4).value)

\* The calls whose context names the hook's own var_mem.
StartRead(t) == StartReadAt(t, data.var_mem.addr)

StartWrite(t) == StartWriteAt(t, data.var_mem.addr)

\* The guard may be held by someone else for as long as the timeout: by the
\* hog, or by another thread that is inside a with_handle! block.
GuardContended(t) ==
  \/ guard \notin {Free, t}
  \/ \E u \in Threads \ {t} : NeedsGuard(th[u])

\* acquire_with_timeout(Some(d)) gives up: with_handle! yields TimeoutReached.
AcquireTimeout(t) ==
  /\ NeedsGuard(th[t])
  /\ GuardContended(t)
  /\ StepTimeout(th[t]) = "Some"
  /\ Local(t, Fail(th[t], "TimeoutReached", "guard_timeout", FALSE))
  /\ UNCHANGED << data, guard >>

\* An OS call made inside a with_handle! block: the guard is taken, the call
\* made, the guard released.
OsCall(t, call, outs) ==
  /\ guard \in {Free, t}
  /\ \E o \in outs :
       /\ Step(t, o)
       /\ guard' = IF o.wait = "park" THEN t ELSE Free
  /\ os' = [call |-> call, guarded |-> TRUE]
  /\ UNCHANGED data

EnumModules(t) ==
  /\ th[t].pc = "h_module"
  /\ OsCall(t, "EnumProcessModulesEx", EnumOutcomes(th[t]))

ModuleInfo(t) ==
  /\ th[t].pc = "h_info"
  /\ OsCall(t, "GetModuleInformation", InfoOutcomes(th[t]))

ProtectCall(t) ==
  /\ \/ th[t].pc = "h_protect"
     \/ th[t].pc \in WriteSites /\ th[t].step \in {"protect", "restore"}
  /\ OsCall(t, "VirtualProtectEx", ProtectOutcomes(th[t]))

ReadMem(t) ==
  /\ th[t].pc \in ReadSites /\ th[t].step = "read"
  /\ OsCall(t, "ReadProcessMemory", ReadOutcomes(th[t]))

WriteMem(t) ==
  /\ th[t].pc \in WriteSites /\ th[t].step = "write"
  /\ OsCall(t, "WriteProcessMemory", WriteOutcomes(th[t]))

\* wait_for_safe_mem: the polling loop runs inside one with_handle! block.
Query(t) ==
  /\ th[t].pc \in ReadSites \cup WriteSites
  /\ th[t].step \in {"wait1", "wait2"}
  /\ OsCall(t, "VirtualQueryEx", QueryOutcomes(th[t]))

\* (variant) No match clears addr and found_bytes.
StoreMatchOrClear(d, r) ==
  IF r.match = << >>
  THEN [d EXCEPT !.addr = NoneVal, !.found_bytes = << >>, !.found = FALSE]
  ELSE [d EXCEPT !.addr = r.module + r.match[1], !.found_bytes = r.match[2],
                 !.found = TRUE]

\* (variant) Only addr is stored.
StoreMatchAddrOnly(d, r) ==
  IF r.match = << >> THEN d ELSE [d EXCEPT !.addr = r.module + r.match[1]]

\* (variant) A match is stored only while none is stored yet.
StoreMatchOnce(d, r) ==
  IF r.match = << >> \/ d.found THEN d
  ELSE [d EXCEPT !.addr = r.module + r.match[1], !.found_bytes = r.match[2],
                 !.found = TRUE]

\* (data.addr, data.found_bytes) = match matches.first(): HookData after the
\* write-lock block of hook().
StoreMatch(d, r) ==
  IF r.match = << >> THEN d
  ELSE [d EXCEPT !.addr = r.module + r.match[1], !.found_bytes = r.match[2],
                 !.found = TRUE]

\* hook(): under the write lock, store addr and found_bytes of the first match,
\* or return PatternNotFound.
SetAddr(t) ==
  /\ th[t].pc = "h_set"
  /\ readers = {}
  /\ IF th[t].match = << >>
     THEN Local(t, Ret(th[t], "PatternNotFound", "PatternNotFound",
                       "no_match", FALSE))
     ELSE Local(t, Go([th[t] EXCEPT !.pc = "h_build"], FALSE))
  /\ data' = StoreMatch(data, th[t])
  /\ UNCHANGED guard

\* hook(): take the read lock, build_hook, build_jmp, read addr.
BuildOutcomes(r) ==
  LET hb == build_hook(data)
      jb == build_jmp(data)
      r2 == [r EXCEPT !.hook_bytes = hb.bytes, !.jump_bytes = jb.bytes,
                      !.addr = data.addr]
  IN { Fail(r, "Other", "build_hook", hb.ok),
       Fail(r, "Other", "build_jmp", jb.ok) }
     \cup (IF hb.ok /\ jb.ok
           THEN { [Go(EnterWrite(r2, HookWrites(r2)[1].site,
                                 HookWrites(r2)[1].addr,
                                 HookWrites(r2)[1].bytes), FALSE)
                     EXCEPT !.lock = TRUE] }
           ELSE {})

Build(t) ==
  /\ th[t].pc = "h_build"
  /\ \E o \in BuildOutcomes(th[t]) : Local(t, o)
  /\ UNCHANGED << data, guard >>

\* ------------------------------------------------------------ environment
\* Another holder of a clone of the SafeHandle takes the guard and keeps it.
HogAcquire ==
  /\ guard = Free
  /\ faults < MaxFaults
  /\ guard' = Hog
  /\ faults' = faults + 1
  /\ last' = NoReturn
  /\ os' = NoCall
  /\ UNCHANGED << impl, mem, page, data, readers, th, started, alive, hist,
                  unit >>

\* The victim re-protects one of its pages.
VictimProtect ==
  /\ faults < MaxFaults
  /\ \E r \in Regions :
       /\ page[r].Protect # PAGE_NOACCESS
       /\ page' = [page EXCEPT ![r].Protect = PAGE_NOACCESS]
       /\ th' = Disturb(th, Hog, mem, [page EXCEPT ![r].Protect = PAGE_NOACCESS])
  /\ faults' = faults + 1
  /\ last' = NoReturn
  /\ os' = NoCall
  /\ UNCHANGED << impl, mem, data, readers, guard, started, alive, hist,
                  unit >>

\* The last holder drops the Hook: HookData and its MemoryRegions are dropped.
\* Drop for MemoryRegion calls VirtualFree(addr, size, MEM_RELEASE) without
\* acquiring a guard and ignores the result.
DropHook(t) ==
  /\ alive
  /\ \A u \in Threads : ~Busy(u)
  /\ t = "t1"
  /\ alive' = FALSE
  /\ last' = NoReturn
  /\ os' = [call |-> "VirtualFree", guarded |-> guard = t]
  /\ UNCHANGED << impl, mem, page, data, readers, guard, th, started, faults,
                  hist, unit >>

\* The operations of Hook.
HookStep(t) ==
  \/ StartHook(t)
  \/ StartUnhook(t)
  \/ AcquireTimeout(t)
  \/ EnumModules(t)
  \/ ModuleInfo(t)
  \/ ProtectCall(t)
  \/ Query(t)
  \/ ReadMem(t)
  \/ WriteMem(t)
  \/ SetAddr(t)
  \/ Build(t)
  \/ DropHook(t)

\* The typed facade.
FacadeStep(t) ==
  \/ StartRead(t)
  \/ StartWrite(t)

Environment ==
  \/ HogAcquire
  \/ VictimProtect

Next ==
  \/ \E t \in Threads : HookStep(t) \/ FacadeStep(t)
  \/ Environment

\* The whole program, hook lifecycle and typed facade together, with one hook
\* implementation; the lifecycle alone is run with every pattern below.
ProgramInit ==
  /\ Init
  /\ impl.pattern = << 72, NoneByte, 139 >>

Spec == ProgramInit /\ [][Next]_vars

\* The install / uninstall lifecycle alone.
NextHook ==
  \/ \E t \in Threads : HookStep(t)
  \/ Environment

SpecHook == Init /\ [][NextHook]_vars

\* The lifecycle of a hook whose pattern matches the patched site again.
RehookInit ==
  /\ Boot
  /\ impl.pattern = WildPrefix
  /\ unit = NoUnit

RehookSpec == RehookInit /\ [][NextHook]_vars

\* A call that has started keeps running whenever it can take a step.
Running(t) ==
  \/ AcquireTimeout(t)
  \/ EnumModules(t)
  \/ ModuleInfo(t)
  \/ ProtectCall(t)
  \/ Query(t)
  \/ ReadMem(t)
  \/ WriteMem(t)
  \/ SetAddr(t)
  \/ Build(t)

FairSpec == Spec /\ \A t \in Threads : WF_vars(Running(t))

\* hook() and unhook() with the history of successive unhook() calls.
UnhooksInit ==
  /\ Boot
  /\ impl.pattern \in Patterns
  /\ unit = [fn |-> "unhooks", prev |-> NoUnhook, first |-> NoUnhook,
             solo |-> FALSE, second |-> FALSE, pair |-> FALSE]

UnhooksSpec == UnhooksInit /\ [][NextHook]_vars

\* hook(), unhook(), read<T> and write<T> called from the threads of the
\* program, every holder of the SafeHandle being one of these calls.
CallsInit ==
  /\ Made
  /\ started = 1
  /\ unit = NoUnit
  /\ impl.pattern = << 72, NoneByte, 139 >>

CallsNext ==
  \/ \E t \in Threads : HookStep(t) \/ FacadeStep(t)
  \/ VictimProtect

\* Some call that can take a step does take one.
CallsFairSpec ==
  CallsInit /\ [][CallsNext]_vars /\ WF_vars(\E t \in Threads : Running(t))

\* The typed facade alone, called with a context address that is var_mem.addr
\* or the address of another region.
CtxAddrs == VarAddrs \cup CaveAddrs

FacadeNext ==
  \/ \E t \in Threads :
       \/ \E a \in CtxAddrs : StartReadAt(t, a) \/ StartWriteAt(t, a)
       \/ AcquireTimeout(t)
       \/ ProtectCall(t)
       \/ Query(t)
       \/ ReadMem(t)
       \/ WriteMem(t)
  \/ Environment

FacadeSpec == ProgramInit /\ [][FacadeNext]_vars

\* write<T> and read<T> called one after the other by one thread, with
\* at_pointer = false, for types of 4 and of 8 bytes.
TypedValues ==
  { << 48879, 57005 >>, << 0, 32704 >>, << 1, 2, 3, 65535 >>,
    << 0, 0, 0, 32752 >> }

RoundTripInit ==
  /\ Boot
  /\ unit = [fn |-> "roundtrip", wrote |-> NoValue, got |-> NoValue]

RoundTripNext ==
  \/ \E a \in CtxAddrs :
       \/ \E x \in TypedValues : StartWriteT("t1", a, FALSE, x)
       \/ \E n \in {4, 8} : StartReadT("t1", a, FALSE, n)
  \/ AcquireTimeout("t1")
  \/ ProtectCall("t1")
  \/ Query("t1")
  \/ ReadMem("t1")
  \/ WriteMem("t1")
  \/ Environment

RoundTripSpec == RoundTripInit /\ [][RoundTripNext]_vars

\* The same program with the history of its write_bytes calls kept; one call
\* fewer is allowed, which keeps the histories within reach of the search.
TracedInit ==
  /\ Made
  /\ started = 1
  /\ impl.pattern \in Patterns
  /\ unit = [fn |-> "trace"]

TracedSpec == TracedInit /\ [][Next]_vars

\* ------------------------------------------------- holders of the regions
\* The values holding the two allocated addresses of one Hook::new: HookData
\* values (each owns a hook_mem and a var_mem) and MemoryRegion values cloned
\* out of them; "releases" counts the VirtualFree calls made per address.
RegionNames == {"hook_mem", "var_mem"}

Holders(r) == unit.hookdata + unit.loose[r]

\* The values that ever held region r (MaxHolders bounds them).
EverHeld(r) == Holders(r) + unit.releases[r]

RegionInit ==
  /\ Boot
  /\ impl.pattern = << 144, 144 >>
  /\ unit = [fn |-> "regions", hookdata |-> 1,
             loose |-> [r \in RegionNames |-> 0],
             releases |-> [r \in RegionNames |-> 0]]

\* #[derive(Clone)] on HookData: the clone owns copies of both MemoryRegions.
CloneHookData ==
  /\ unit.hookdata >= 1
  /\ \A r \in RegionNames : EverHeld(r) < MaxHolders
  /\ unit' = [unit EXCEPT !.hookdata = @ + 1]
  /\ UNCHANGED hookvars

\* #[derive(Clone)] on MemoryRegion: a second value with the same addr.
CloneRegion(r) ==
  /\ Holders(r) >= 1
  /\ EverHeld(r) < MaxHolders
  /\ unit' = [unit EXCEPT !.loose[r] = @ + 1]
  /\ UNCHANGED hookvars

\* A HookData value is dropped: Drop for MemoryRegion runs for both fields.
DropHookData ==
  /\ unit.hookdata >= 1
  /\ unit' = [unit EXCEPT !.hookdata = @ - 1,
                          !.releases = [r \in RegionNames |-> @[r] + 1]]
  /\ UNCHANGED hookvars

\* A MemoryRegion value is dropped: VirtualFree(self.addr, ..).
DropRegion(r) ==
  /\ unit.loose[r] >= 1
  /\ unit' = [unit EXCEPT !.loose[r] = @ - 1, !.releases[r] = @ + 1]
  /\ UNCHANGED hookvars

RegionNext ==
  \/ CloneHookData
  \/ DropHookData
  \/ \E r \in RegionNames : CloneRegion(r) \/ DropRegion(r)

RegionSpec == RegionInit /\ [][RegionNext]_vars

\* ------------------------------------------------- the scan on its own
\* All sequences over S of length at most n.
SeqsUpTo(S, n) == UNION { [1..k -> S] : k \in 0..n }

\* Buffers and patterns handed to find_pattern_in_bytes.
HayBytes == {1, 72, 139}
PatBytes == {72, 139, NoneByte}
Haystacks == SeqsUpTo(HayBytes, MaxHay) \cup Images
ScanPatterns == SeqsUpTo(PatBytes, MaxPat)

FindInit ==
  /\ Boot
  /\ impl.pattern = << 144, 144 >>
  /\ \E H \in Haystacks, P \in ScanPatterns :
       unit = [fn |-> "find", H |-> H, P |-> P, done |-> FALSE,
               out |-> [panic |-> FALSE, matches |-> << >>]]

\* find_pattern_in_bytes(H, P) is called.
Find ==
  /\ unit.fn = "find"
  /\ ~unit.done
  /\ unit' = [unit EXCEPT !.done = TRUE,
                          !.out = find_pattern_in_bytes(unit.H, unit.P)]
  /\ UNCHANGED hookvars

FindNext == Find

FindSpec == FindInit /\ [][FindNext]_vars

\* ------------------------------------------- create_unhook_bytes on its own
UnhookBytesInit ==
  /\ Boot
  /\ impl.pattern = << 144, 144 >>
  /\ \E P \in ScanPatterns, C \in SeqsUpTo(HayBytes, MaxPat) :
       unit = [fn |-> "unhook_bytes", P |-> P, C |-> C, done |-> FALSE,
               out |-> << >>]

\* create_unhook_bytes(P, C) is called.
UnhookBytes ==
  /\ unit.fn = "unhook_bytes"
  /\ ~unit.done
  /\ unit' = [unit EXCEPT !.done = TRUE,
                          !.out = create_unhook_bytes(unit.P, unit.C)]
  /\ UNCHANGED hookvars

UnhookBytesNext == UnhookBytes

UnhookBytesSpec == UnhookBytesInit /\ [][UnhookBytesNext]_vars

\* --------------------------------------------- mbi_safety_check on its own
\* The page information VirtualQueryEx can report: a protection is zero or one
\* of the eight access constants (16 is PAGE_EXECUTE), possibly with the
\* modifiers PAGE_GUARD, PAGE_NOCACHE (512) and PAGE_WRITECOMBINE (1024); the
\* state is MEM_COMMIT, MEM_RESERVE (8192) or MEM_FREE (65536); the type is
\* zero, MEM_PRIVATE, MEM_MAPPED or MEM_IMAGE (16777216).
AccessValues ==
  {0, PAGE_NOACCESS, PAGE_READONLY, PAGE_READWRITE, PAGE_WRITECOPY, 16,
   PAGE_EXECUTE_READ, PAGE_EXECUTE_READWRITE, PAGE_EXECUTE_WRITECOPY}

ModifierValues == { g + c + w : g \in {0, PAGE_GUARD}, c \in {0, 512}, w \in {0, 1024} }

PageInfos ==
  [State : {MEM_COMMIT, 8192, 65536},
   Protect : { a + m : a \in AccessValues, m \in ModifierValues },
   Type : {0, MEM_PRIVATE, MEM_MAPPED, 16777216}]

CheckInit ==
  /\ Boot
  /\ impl.pattern = << 144, 144 >>
  /\ \E mbi \in PageInfos, nw \in BOOLEAN :
       unit = [fn |-> "check", mbi |-> mbi, needs_write |-> nw, done |-> FALSE,
               out |-> [tag |-> "-"]]

\* mbi_safety_check(mbi, needs_write) is called.
Check ==
  /\ unit.fn = "check"
  /\ ~unit.done
  /\ unit' = [unit EXCEPT !.done = TRUE,
                          !.out = mbi_safety_check(unit.mbi, unit.needs_write)]
  /\ UNCHANGED hookvars

CheckNext == Check

CheckSpec == CheckInit /\ [][CheckNext]_vars

\* ------------------------------------- the pointer dereference of read / write
\* Host words are sequences of bytes, least significant first; the host word
\* is 4 or 8 bytes wide, depending on the target of the build.
WordWidths == {4, 8}

PtrBytes == {0, 127, 128, 255}

PtrOffsets == {0, 4}

RECURSIVE AddWord(_, _)
\* usize + k, wrapping at the width of the word.
AddWord(wd, k) ==
  IF wd = << >> THEN << >>
  ELSE << (wd[1] + k) % 256 >> \o AddWord(Tail(wd), (wd[1] + k) \div 256)

RECURSIVE Carry(_, _)
\* The carry out of usize + k: non-zero when the addition overflows.
Carry(wd, k) ==
  IF wd = << >> THEN k ELSE Carry(Tail(wd), (wd[1] + k) \div 256)

\* `v as usize` for v: i32 with the byte image b: the sign is extended.
i32_as_usize(b, w) ==
  b \o [i \in 1..(w - 4) |-> IF b[4] >= 128 THEN 255 ELSE 0]

\* ptr + context.offset: an overflow panics where overflow checks are on and
\* wraps where they are off.
EffectiveAddr(b, off, w) ==
  LET ptr == i32_as_usize(b, w)
  IN IF Carry(ptr, off) = 0
     THEN { [panic |-> FALSE, addr |-> AddWord(ptr, off)] }
     ELSE { [panic |-> TRUE, addr |-> << >>],
            [panic |-> FALSE, addr |-> AddWord(ptr, off)] }

PtrInit ==
  /\ Boot
  /\ impl.pattern = << 144, 144 >>
  /\ \E b \in [1..4 -> PtrBytes], off \in PtrOffsets, w \in WordWidths :
       unit = [fn |-> "ptr", bytes |-> b, offset |-> off, width |-> w,
               done |-> FALSE, out |-> [panic |-> FALSE, addr |-> << >>]]

\* read / write with at_pointer = true, once the 4 bytes at the base are read.
Deref ==
  /\ unit.fn = "ptr"
  /\ ~unit.done
  /\ \E o \in EffectiveAddr(unit.bytes, unit.offset, unit.width) :
       unit' = [unit EXCEPT !.done = TRUE, !.out = o]
  /\ UNCHANGED hookvars

PtrNext == Deref

PtrSpec == PtrInit /\ [][PtrNext]_vars

\* ------------------------------------------- Hook::new and allocate_memory
\* The addresses VirtualAllocEx can hand out in the victim, and the sizes the
\* HookImpl asks for.
AllocAddrs == CaveAddrs \cup VarAddrs \cup {16384}

HookAllocSizes == {16, 256, 4096}

VarSizes == {4, 8}

NoRegion == [addr |-> 0, size |-> 0]

\* (variant) The result of VirtualAllocEx is not tested for null.
allocate_memory_unchecked(os_addr, size) ==
  [res |-> "Ok", region |-> [addr |-> os_addr, size |-> size]]

\* allocate_memory, given what VirtualAllocEx returned (0 is null): a null
\* result is get_last_error(), a WinAPI error.
allocate_memory(os_addr, size) ==
  IF os_addr = 0 THEN [res |-> "WinAPI", region |-> NoRegion]
  ELSE [res |-> "Ok", region |-> [addr |-> os_addr, size |-> size]]

\* The outcomes of allocate_memory(handle, size) when the regions in `remote`
\* are allocated in the victim: the guard is not acquired within 10 ms, or
\* VirtualAllocEx returns null or a free address.
AllocOutcomes(remote, size) ==
  { [res |-> "TimeoutReached", region |-> NoRegion] }
    \cup { allocate_memory(a, size) :
             a \in {0} \cup (AllocAddrs \ { g.addr : g \in remote }) }

\* Drop for MemoryRegion: VirtualFree(addr, size, MEM_RELEASE). The call takes
\* no process handle: it acts on the address space of the calling process, and
\* the regions allocated in the victim stay as they are.
VirtualFree(remote, region) == remote

NewInit ==
  /\ Boot
  /\ impl.pattern = << 144, 144 >>
  /\ \E m \in BOOLEAN, hs \in HookAllocSizes, vs \in VarSizes :
       unit = [fn |-> "new", module |-> m, hook_alloc_size |-> hs,
               var_size |-> vs, pc |-> "lookup", hook_mem |-> NoRegion,
               var_mem |-> NoRegion, remote |-> {}, frees |-> {},
               res |-> "-", why |-> "-", addr |-> NoneVal,
               found_bytes |-> << >>]

\* module_by_name(.., stem = true, None), then ok_or(anyhow!(..))?: a failed
\* enumeration and a missing module both reach the caller as Other.
NewLookup ==
  /\ unit.fn = "new"
  /\ unit.pc = "lookup"
  /\ \/ unit' = [unit EXCEPT !.pc = "done", !.res = "Other", !.why = "enum"]
     \/ /\ ~unit.module
        /\ unit' = [unit EXCEPT !.pc = "done", !.res = "Other",
                                !.why = "no_module"]
     \/ /\ unit.module
        /\ unit' = [unit EXCEPT !.pc = "alloc_hook"]
  /\ UNCHANGED hookvars

\* hook_mem: allocate_memory(&handle, hook_impl.hook_alloc_size())?
NewAllocHook ==
  /\ unit.fn = "new"
  /\ unit.pc = "alloc_hook"
  /\ \E o \in AllocOutcomes(unit.remote, unit.hook_alloc_size) :
       unit' = IF o.res = "Ok"
               THEN [unit EXCEPT !.pc = "alloc_var", !.hook_mem = o.region,
                                 !.remote = @ \cup {o.region}]
               ELSE [unit EXCEPT !.pc = "done", !.res = o.res,
                                 !.why = "hook_mem"]
  /\ UNCHANGED hookvars

\* var_mem: allocate_memory(&handle, hook_impl.var_size())?, then the Hook is
\* built; on failure the hook_mem value already made is dropped.
NewAllocVar ==
  /\ unit.fn = "new"
  /\ unit.pc = "alloc_var"
  /\ \E o \in AllocOutcomes(unit.remote, unit.var_size) :
       unit' = IF o.res = "Ok"
               THEN [unit EXCEPT !.pc = "done", !.res = "Ok",
                                 !.var_mem = o.region,
                                 !.remote = @ \cup {o.region}]
               ELSE [unit EXCEPT !.pc = "done", !.res = o.res,
                                 !.why = "var_mem",
                                 !.frees = @ \cup {unit.hook_mem.addr},
                                 !.remote = VirtualFree(@, unit.hook_mem),
                                 !.hook_mem = NoRegion]
  /\ UNCHANGED hookvars

NewNext ==
  \/ NewLookup
  \/ NewAllocHook
  \/ NewAllocVar

NewSpec == NewInit /\ [][NewNext]_vars

\* ------------------------------------------------- newmem_jmp and end_jmp
\* A 32-bit address is the pair << low 16 bits, high 16 bits >>; an i32 is
\* [h, l] with the value h * 65536 + l, l in 0..65535, so that a result
\* outside the range of i32 can be told from one inside it.
JmpAddrs == { << l, h >> : l \in {0, 65531}, h \in {64, 32767, 32768, 65535} }

JmpTargets == { << 2, 64 >>, << 2, 32768 >> }

JmpOffsets == {0, 1, 7}

JmpNops == {NoneVal, 0, 1, 3}

NoAddr == << >>

\* `a as i32` for a 32-bit address a.
as_i32(a) == [h |-> IF a[2] >= 32768 THEN a[2] - 65536 ELSE a[2], l |-> a[1]]

\* `k as i32` for a small k (an offset, an instruction size).
small_as_i32(k) == [h |-> IF k < 0 THEN -1 ELSE 0, l |-> (k + 65536) % 65536]

I32Add(x, y) ==
  [h |-> x.h + y.h + ((x.l + y.l) \div 65536), l |-> (x.l + y.l) % 65536]

I32Sub(x, y) ==
  [h |-> x.h - y.h - 1 + ((x.l - y.l + 65536) \div 65536),
   l |-> (x.l - y.l + 65536) % 65536]

\* The outcomes of an i32 `+` or `-` with the exact result x: inside the
\* range, x; outside it, a panic where overflow checks are on (the dev
\* profile) and the wrapped value where they are off (the release profile).
Checked(x) ==
  LET wrapped == [h |-> ((x.h + 32768 + 262144) % 65536) - 32768, l |-> x.l]
  IN IF x.h < -32768 \/ x.h > 32767
     THEN { [panic |-> TRUE, v |-> wrapped], [panic |-> FALSE, v |-> wrapped] }
     ELSE { [panic |-> FALSE, v |-> x] }

\* The rel32 operand dynasm emits for an i32.
imm32(x) == byte_repr(<< x.l, (x.h + 65536) % 65536 >>)

\* newmem_jmp: newmem - (hook.get_addr()? as i32 + 5).
newmem_rel_jmp(newmem, addr) ==
  UNION { { [panic |-> s.panic \/ d.panic, v |-> d.v] :
              d \in Checked(I32Sub(as_i32(newmem), s.v)) } :
          s \in Checked(I32Add(as_i32(addr), small_as_i32(5))) }

\* HookImpl::build_jmp (default) on 32-bit addresses: newmem_jmp(hook_data)?,
\* then the assembled bytes.
JmpOutcomes(cave, addr) ==
  IF addr = NoAddr THEN { [res |-> "Err", bytes |-> << >>] }
  ELSE { IF o.panic THEN [res |-> "Panic", bytes |-> << >>]
         ELSE [res |-> "Ok", bytes |-> << 233 >> \o imm32(o.v)] :
         o \in newmem_rel_jmp(cave, addr) }

\* calc_rel_inst on 32-bit addresses:
\* (dest as i32) - (origin as i32 + (offset as i32 - 1) + inst_size as i32).
rel_return(offset, origin, dest, inst_size) ==
  UNION { UNION { { [panic |-> a.panic \/ b.panic \/ c.panic, v |-> c.v] :
                      c \in Checked(I32Sub(as_i32(dest), b.v)) } :
                  b \in Checked(I32Add(a.v, small_as_i32(inst_size))) } :
          a \in Checked(I32Add(as_i32(origin), small_as_i32(offset - 1))) }

\* apply_nops: for _ in 1..iterations.
apply_nops(ops, iterations) == ops \o [i \in 1..(iterations - 1) |-> 144]

\* end_jmp(ops, nops, hook_data, hook_impl, target).
end_jmp(ops, nops, cave, addr, target) ==
  UNION { IF j.res # "Ok" THEN { [res |-> j.res, ops |-> ops] }
          ELSE { IF r.panic THEN [res |-> "Panic", ops |-> ops]
                 ELSE [res |-> "Ok",
                       ops |-> IF nops = NoneVal
                               THEN ops \o << 233 >> \o imm32(r.v)
                               ELSE apply_nops(ops \o << 233 >> \o imm32(r.v),
                                               nops)] :
                 r \in rel_return(Len(ops), cave, target, Len(j.bytes)) } :
          j \in JmpOutcomes(cave, addr) }

JmpInit ==
  /\ Boot
  /\ impl.pattern = << 144, 144 >>
  /\ \E c \in JmpAddrs, a \in JmpAddrs \cup {NoAddr}, g \in JmpTargets,
        k \in JmpOffsets, n \in JmpNops :
       unit = [fn |-> "jmp", cave |-> c, addr |-> a, target |-> g,
               ops |-> [i \in 1..k |-> 204], nops |-> n, pc |-> "start",
               res |-> "-", out |-> << >>]

BuildJmp ==
  /\ unit.fn = "jmp"
  /\ unit.pc = "start"
  /\ \E j \in JmpOutcomes(unit.cave, unit.addr) :
       unit' = [unit EXCEPT !.pc = "build_jmp", !.res = j.res,
                            !.out = j.bytes]
  /\ UNCHANGED hookvars

EndJmp ==
  /\ unit.fn = "jmp"
  /\ unit.pc = "start"
  /\ \E e \in end_jmp(unit.ops, unit.nops, unit.cave, unit.addr, unit.target) :
       unit' = [unit EXCEPT !.pc = "end_jmp", !.res = e.res, !.out = e.ops]
  /\ UNCHANGED hookvars

JmpNext ==
  \/ BuildJmp
  \/ EndJmp

JmpSpec == JmpInit /\ [][JmpNext]_vars

\* ------------------------------------------------------ MemoryRegion::zero
\* The region zero() is called on: its bytes and its page protection in the
\* victim (execute+read+write as allocated, or changed by the victim since).
ZeroContents == [1..2 -> {0, 7}] \cup [1..4 -> {0, 7}]

ZeroProtects == {PAGE_EXECUTE_READWRITE, PAGE_READONLY}

ZeroInit ==
  /\ Boot
  /\ impl.pattern = << 144, 144 >>
  /\ \E b \in ZeroContents, p \in ZeroProtects :
       unit = [fn |-> "zero", size |-> Len(b), bytes |-> b, protect |-> p,
               pc |-> "start", trace |-> << >>, n |-> 0, res |-> "-"]

\* with_handle!(&self.handle, Some(1 s), ..): the guard, or TimeoutReached.
ZeroAcquire ==
  /\ unit.fn = "zero"
  /\ unit.pc = "start"
  /\ \/ unit' = [unit EXCEPT !.pc = "done", !.res = "TimeoutReached"]
     \/ unit' = [unit EXCEPT !.pc = "write"]
  /\ UNCHANGED hookvars

\* WriteProcessMemory(guard, addr, buffer, size, &mut bytes_written) and
\* into_memop_result(..)?, then Ok(()): bytes_written is not read again.
ZeroWrite ==
  /\ unit.fn = "zero"
  /\ unit.pc = "write"
  /\ LET buffer == [i \in 1..unit.size |-> 0]
         did == [unit EXCEPT !.pc = "done",
                             !.trace = Append(@, << "write", buffer >>)]
     IN \/ unit' = [did EXCEPT !.res = "Other"]
        \/ /\ is_writable(unit.protect)
           /\ \E n \in {unit.size - 1, unit.size} :
                unit' = [did EXCEPT !.res = "Ok", !.n = n,
                                    !.bytes = [i \in 1..unit.size |->
                                                 IF i <= n THEN 0 ELSE @[i]]]
  /\ UNCHANGED hookvars

ZeroNext ==
  \/ ZeroAcquire
  \/ ZeroWrite

ZeroSpec == ZeroInit /\ [][ZeroNext]_vars

\* ------------------------------------------------ MemOpResultExt::context
\* A MemOpResult: Ok, or an error with its variant; "chain" is the anyhow chain
\* of an Other error, outermost message first.
Variants ==
  {"TimeoutReached", "MemoryStateInvalid", "PatternNotFound", "WinAPI", "Other"}

Messages == {"m1", "m2"}

Contexts == {"c1", "c2"}

OkResult == [ok |-> TRUE, variant |-> "-", chain |-> << >>]

Results ==
  {OkResult}
    \cup { [ok |-> FALSE, variant |-> v, chain |-> << >>] :
             v \in Variants \ {"Other"} }
    \cup { [ok |-> FALSE, variant |-> "Other", chain |-> c] :
             c \in SeqsUpTo(Messages, 2) \ {<< >>} }

\* MemOpResultExt::context and with_context (the same mapping, the context
\* computed eagerly or lazily): an Other error gets the context prepended to
\* its chain; any other error becomes a new Other error whose message is the
\* context followed by the display of the old error.
context(res, c) ==
  IF res.ok THEN res
  ELSE IF res.variant = "Other"
       THEN [res EXCEPT !.chain = << c >> \o @]
       ELSE [ok |-> FALSE, variant |-> "Other",
             chain |-> << c \o ": " \o res.variant >>]

ContextInit ==
  /\ Boot
  /\ impl.pattern = << 144, 144 >>
  /\ \E res \in Results, lazy \in BOOLEAN :
       unit = [fn |-> "context", given |-> res, lazy |-> lazy, n |-> 0,
               out |-> res]

\* result.context(c), or result.with_context(|| c).
AddContext ==
  /\ unit.fn = "context"
  /\ unit.n < MaxContext
  /\ \E c \in Contexts :
       unit' = [unit EXCEPT !.n = @ + 1, !.out = context(unit.out, c)]
  /\ UNCHANGED hookvars

ContextNext == AddContext

ContextSpec == ContextInit /\ [][ContextNext]_vars

\* ------------------------------------------------------------- properties
\* The write log of a hook() call, running or just returned.
HookLogs ==
  { th[t].wlog : t \in { u \in Threads : th[u].op = "hook" } }
    \cup (IF last.op = "hook" THEN { last.wlog } ELSE {})

Has(log, e) == \E i \in 1..Len(log) : log[i] = e

\* C1: in every execution of hook(), WriteProcessMemory is issued at the patch
\* site only after the write_bytes of the cave payload has returned Ok; the
\* two writes are separate and in that order.
C1_CaveBeforePatch ==
  \A log \in HookLogs :
    /\ Len(log) >= 1 => log[1] = "h_cave"
    /\ Has(log, "h_jump") =>
         /\ Len(log) >= 3
         /\ log[2] = "ok"
         /\ log[3] = "h_jump"
         /\ \A i \in 1..Len(log) : log[i] = "h_jump" => i = 3

\* C1 witness: a hook() call returned Ok after both writes.
C1_Witness ==
  /\ last.op = "hook"
  /\ last.res = "Ok"
  /\ last.wlog = << "h_cave", "ok", "h_jump", "ok" >>

\* C2: after a successful hook() followed by a successful unhook(), with no
\* other operation in between, every byte that hook() overwrote with the
\* build_jmp output has its pre-install value again.
C2_UnhookRestoresPatchSite ==
  hist.phase = "restored" => Peek(hist.addr, Len(hist.pre)) = hist.pre

\* C3: when build_hook, build_jmp or the write_bytes of the cave payload fails,
\* hook() returns that error and has issued no write at the patch site.
C3_FailedInstallLeavesPatchSite ==
  (/\ last.op = "hook"
   /\ \/ last.why \in {"build_hook", "build_jmp"}
      \/ last.site = "h_cave" /\ last.err # "none")
  => /\ last.res # "Ok"
     /\ last.res = last.err
     /\ ~Has(last.wlog, "h_jump")

\* C3 witness: hook() returned the error of a failed cave write.
C3_Witness ==
  /\ last.op = "hook"
  /\ last.site = "h_cave"
  /\ last.why = "os"
  /\ last.res = "Other"
  /\ last.wlog = << "h_cave" >>

\* C4: no typed read / write holds the HookData read lock while one of its
\* remote OS calls runs.
C4_NoLockAcrossOsCall ==
  \A t \in Threads :
    (th[t].op \in {"read", "write"} /\ NeedsGuard(th[t])) => t \notin readers

\* A hook() / unhook() call between its first and its last access to HookData
\* or to the victim's memory.
Installing(t) ==
  \/ th[t].op = "hook" /\ th[t].pc \notin {"idle", "h_module"}
  \/ th[t].op = "unhook" /\ th[t].pc = "u_write"

\* C5: no two hook() / unhook() calls of different threads overlap.
C5_InstallUninstallExclusive ==
  \A t, u \in Threads : (t # u /\ Installing(t)) => ~Installing(u)

\* C6: every remote OS call issued by the library, the region release on drop
\* included, executes while the calling thread holds the Handle's guard.
C6_OsCallsUnderGuard ==
  os.call # "none" => os.guarded

\* C7: a MemoryStateInvalid outcome of a poll of wait_for_safe_mem is retried
\* within the budget and never returned to the caller.
C7_InvalidPollIsRetried ==
  ~(last.why = "state" /\ last.err = "MemoryStateInvalid")

\* C8: a wait_for_safe_mem that fails because the page is not safe fails with
\* TimeoutReached.
C8_UnsafePageTimesOut ==
  last.why \in {"state", "wait_timeout"} => last.err = "TimeoutReached"

\* C9: when the guard cannot be acquired within the timeout in a step of
\* hook() or unhook(), the call returns TimeoutReached.
C9_GuardTimeoutIsTimeoutReached ==
  (last.op \in {"hook", "unhook"} /\ last.why = "guard_timeout")
    => last.res = "TimeoutReached"

\* C10: a hook() call that finds the guard held by a holder that never
\* releases it eventually returns.
C10_HookReturnsUnderHog ==
  \A t \in Threads :
    (th[t].op = "hook" /\ guard = Hog) ~> (th[t].op # "hook")

\* C11: when the scan finds no match, hook() returns PatternNotFound after one
\* scan of the image, in a step that leaves HookData (addr and found_bytes
\* included) and the victim's memory as they were, having written nothing.
C11_PatternNotFoundLeavesState ==
  [][(last'.op = "hook" /\ last'.why = "no_match")
       => /\ last'.res = "PatternNotFound"
          /\ last'.scans = 1
          /\ last'.wlog = << >>
          /\ data' = data
          /\ mem' = mem]_vars

\* C11 witness: hook() returned PatternNotFound on a Hook whose addr and
\* found_bytes were set by an earlier hook().
C11_Witness ==
  /\ last.op = "hook"
  /\ last.res = "PatternNotFound"
  /\ data.addr # NoneVal
  /\ data.found_bytes # << >>

\* The offsets (0-based) at which pattern P matches in buffer H.
MatchOffsets(H, P) ==
  { o \in 0..Len(H) :
      /\ o + Len(P) <= Len(H)
      /\ \A i \in 1..Len(P) : P[i] = NoneByte \/ H[o + i] = P[i] }

\* HookData holds the first match of the pattern in the image img.
FirstMatchStored(img) ==
  LET offs == MatchOffsets(img, data.pattern)
  IN /\ offs # {}
     /\ \E o \in offs :
          /\ \A q \in offs : o <= q
          /\ data.addr = data.module_addr + o
          /\ data.found_bytes = SubSeq(img, o + 1, o + Len(data.pattern))
     /\ data.found
     /\ Len(data.found_bytes) = Len(data.pattern)

\* C12: after hook() has returned Ok, addr is the module base plus the lowest
\* offset at which the pattern matches in the image read by this call, and
\* found_bytes are the image bytes at that offset, as many as the pattern has.
C12_AddrIsFirstMatch ==
  (last.op = "hook" /\ last.res = "Ok") => FirstMatchStored(last.image)

\* The step in which unhook() is called.
UnhookCalled ==
  /\ started' = started + 1
  /\ \/ last'.op = "unhook"
     \/ \E t \in Threads : th[t].pc = "idle" /\ th'[t].op = "unhook"

\* C13: unhook() on a Hook whose addr is none returns Ok in the step of the
\* call, makes no remote OS call and no write, and leaves HookData unchanged.
C13_UnhookWithoutAddrIsNoOp ==
  [][(UnhookCalled /\ data.addr = NoneVal)
       => /\ last'.op = "unhook"
          /\ last'.res = "Ok"
          /\ last'.wlog = << >>
          /\ os' = NoCall
          /\ th' = th
          /\ data' = data
          /\ mem' = mem
          /\ page' = page]_vars

\* C13 witness: unhook() returned Ok on a Hook whose addr is none.
C13_Witness ==
  /\ last.op = "unhook"
  /\ last.res = "Ok"
  /\ last.why = "no_addr"
  /\ data.addr = NoneVal

\* C14: each allocated address is released exactly once, when its last holder
\* is dropped: no release while a holder remains, one release once none does.
C14_ReleasedExactlyOnce ==
  unit.fn = "regions" =>
    \A r \in RegionNames :
      unit.releases[r] = IF Holders(r) = 0 THEN 1 ELSE 0

\* The scan has returned (it did not panic).
Scanned == unit.fn = "find" /\ unit.done /\ ~unit.out.panic

\* C15: every pair (o, C) returned by find_pattern_in_bytes(H, P) has
\* o + |P| <= |H|, matches P at every non-wildcard position, and C is the
\* haystack slice H[o .. o+|P|).
C15_MatchesAreSound ==
  Scanned =>
    \A k \in 1..Len(unit.out.matches) :
      LET o == unit.out.matches[k][1]
          C == unit.out.matches[k][2]
      IN /\ o >= 0
         /\ o + Len(unit.P) <= Len(unit.H)
         /\ \A i \in 1..Len(unit.P) :
              unit.P[i] = NoneByte \/ unit.H[o + i] = unit.P[i]
         /\ Len(C) = Len(unit.P)
         /\ \A i \in 1..Len(unit.P) : C[i] = unit.H[o + i]

\* C15 witness: a match whose pattern has a wildcard over a byte that differs
\* from the other pattern bytes.
C15_Witness ==
  /\ Scanned
  /\ unit.P = << 72, NoneByte, 139 >>
  /\ unit.out.matches = << << 1, << 72, 1, 139 >> >> >>

\* C16: find_pattern_in_bytes(H, P) returns every offset at which P matches in
\* H, each once, in strictly ascending order; for 48 ?? 8B in
\* 01 48 FF 8B 02 48 7A 8B these are the offsets 1 and 5.
C16_MatchesAreComplete ==
  Scanned =>
    /\ { unit.out.matches[k][1] : k \in 1..Len(unit.out.matches) }
         = MatchOffsets(unit.H, unit.P)
    /\ \A k \in 1..(Len(unit.out.matches) - 1) :
         unit.out.matches[k][1] < unit.out.matches[k + 1][1]
    /\ (unit.H = << 1, 72, 255, 139, 2, 72, 122, 139 >>
        /\ unit.P = << 72, NoneByte, 139 >>)
         => unit.out.matches = << << 1, << 72, 255, 139 >> >>,
                                  << 5, << 72, 122, 139 >> >> >>

\* C16 witness: the scan of 01 48 FF 8B 02 48 7A 8B for 48 ?? 8B returned two
\* matches.
C16_Witness ==
  /\ Scanned
  /\ unit.H = << 1, 72, 255, 139, 2, 72, 122, 139 >>
  /\ unit.P = << 72, NoneByte, 139 >>
  /\ Len(unit.out.matches) = 2

\* C17: for a pattern P and a captured sequence C of the same length,
\* create_unhook_bytes(P, C) has length |P|, with C[i] at the wildcard
\* positions of P and P[i] elsewhere.
C17_UnhookBytesMergePattern ==
  (unit.fn = "unhook_bytes" /\ unit.done /\ Len(unit.P) = Len(unit.C))
    => /\ Len(unit.out) = Len(unit.P)
       /\ \A i \in 1..Len(unit.P) :
            unit.out[i] = IF unit.P[i] = NoneByte THEN unit.C[i] ELSE unit.P[i]

\* C17 witness: a wildcard position and a position where the pattern byte
\* differs from the captured byte.
C17_Witness ==
  /\ unit.fn = "unhook_bytes"
  /\ unit.done
  /\ unit.P = << 72, NoneByte, 139 >>
  /\ unit.C = << 139, 1, 139 >>
  /\ unit.out = << 72, 1, 139 >>

\* Protection p includes the single-bit flag b.
HasFlag(p, b) == (p \div b) % 2 = 1

\* The protection checks of the page-safety predicate.
ProtReadable(p) ==
  \E f \in {PAGE_READONLY, PAGE_READWRITE, PAGE_WRITECOPY, PAGE_EXECUTE_READ,
            PAGE_EXECUTE_READWRITE, PAGE_EXECUTE_WRITECOPY} : HasFlag(p, f)

ProtWritable(p) ==
  \E f \in {PAGE_READWRITE, PAGE_WRITECOPY, PAGE_EXECUTE_READWRITE,
            PAGE_EXECUTE_WRITECOPY} : HasFlag(p, f)

ProtGuarded(p) == HasFlag(p, PAGE_GUARD) \/ HasFlag(p, PAGE_NOACCESS)

WriteCopyMapping(m) ==
  m.Type \in {MEM_MAPPED, MEM_PRIVATE} /\ HasFlag(m.Protect, PAGE_WRITECOPY)

ReadAcceptable(m) == ~ProtGuarded(m.Protect) /\ ProtReadable(m.Protect)

WriteAcceptable(m) ==
  /\ ReadAcceptable(m)
  /\ m.State = MEM_COMMIT
  /\ m.Type # 0
  /\ ~WriteCopyMapping(m)
  /\ ProtWritable(m.Protect)

\* C18: mbi_safety_check accepts a page for reads iff its protection includes
\* neither guard nor no-access and includes a readable flag; for writes iff in
\* addition the state is committed, the type is non-zero, the page is not a
\* mapped or private write-copy page, and the protection has a writable flag;
\* so a page accepted for writes is accepted for reads.
C18_SafetyPredicate ==
  (unit.fn = "check" /\ unit.done)
    => /\ (unit.out.tag = "Ok")
            = IF unit.needs_write THEN WriteAcceptable(unit.mbi)
              ELSE ReadAcceptable(unit.mbi)
       /\ mbi_safety_check(unit.mbi, TRUE).tag = "Ok"
            => mbi_safety_check(unit.mbi, FALSE).tag = "Ok"

\* C18 witness: a committed image page with execute-read protection is
\* accepted for reads and refused for writes.
C18_Witness ==
  /\ unit.fn = "check"
  /\ unit.done
  /\ unit.mbi = [State |-> MEM_COMMIT, Protect |-> PAGE_EXECUTE_READ,
                 Type |-> 16777216]
  /\ unit.needs_write
  /\ unit.out.tag = "MemoryStateInvalid"
  /\ mbi_safety_check(unit.mbi, FALSE).tag = "Ok"

\* C19: a failing mbi_safety_check returns MemoryStateInvalid with the page's
\* state, protection and type and a non-zero 3-bit mask: bit 0b001 iff the
\* state check failed, 0b010 iff a protection check failed, 0b100 iff a
\* page-type check failed; the mask is zero exactly on success, and a read
\* check sets the protection bit only.
C19_FailureMask ==
  (unit.fn = "check" /\ unit.done)
    => LET m == unit.mbi
           w == unit.needs_write
           k == unit.out.mask
       IN /\ unit.out.tag \in {"Ok", "MemoryStateInvalid"}
          /\ (unit.out.tag = "Ok") = (k = 0)
          /\ k \in 0..7
          /\ unit.out.state = m.State
          /\ unit.out.protect = m.Protect
          /\ unit.out.type = m.Type
          /\ HasFlag(k, INVALID_ALLOCATION_TYPE) = (w /\ m.State # MEM_COMMIT)
          /\ HasFlag(k, INVALID_PROTECTION_FLAGS)
               = IF w THEN \/ ProtGuarded(m.Protect)
                           \/ ~ProtWritable(m.Protect)
                           \/ WriteCopyMapping(m)
                 ELSE ProtGuarded(m.Protect) \/ ~ProtReadable(m.Protect)
          /\ HasFlag(k, INVALID_PAGE_TYPE)
               = (w /\ (m.Type = 0 \/ WriteCopyMapping(m)))
          /\ ~w => k \in {0, INVALID_PROTECTION_FLAGS}

\* C19 witness: a write check of a free page fails with all three bits set.
C19_Witness ==
  /\ unit.fn = "check"
  /\ unit.done
  /\ unit.needs_write
  /\ unit.mbi = [State |-> 65536, Protect |-> PAGE_NOACCESS, Type |-> 0]
  /\ unit.out.tag = "MemoryStateInvalid"
  /\ unit.out.mask = 7

\* The remote steps of a complete write_bytes call with the history io.
WriteBytesSteps(io) ==
  << << "protect", PAGE_EXECUTE_READWRITE >>, << "wait", TRUE >>,
     << "write", io.buf >>, << "protect", io.old >>, << "wait", TRUE >> >>

\* write_bytes has just returned Ok to the operation that returns Ok.
WriteBytesReturned == last.res = "Ok" /\ last.site \in WriteSites

\* After the call: the protection is the one before it, the bytes are written.
WriteBytesPost(io) ==
  /\ PageAt(io.addr).Protect = io.before
  /\ Peek(io.addr, Len(io.buf)) = io.buf

\* The steps of every write_bytes call, complete or not, follow the order
\* protect, wait, write, restore, wait.
WriteBytesOrder ==
  /\ \A t \in Threads :
       th[t].pc \in WriteSites
         => /\ Len(th[t].io.trace) <= 5
            /\ th[t].io.trace
                 = SubSeq(WriteBytesSteps(th[t].io), 1, Len(th[t].io.trace))
  /\ WriteBytesReturned => last.io.trace = WriteBytesSteps(last.io)

\* C20 as stated: write_bytes changes the protection to execute+read+write,
\* waits, writes, restores the protection returned by the first step, waits;
\* after every successful call the page protection equals its value before
\* the call and the bytes at [addr, addr+len) equal the given bytes.
C20_WriteBytesRestoresAndWrites ==
  /\ WriteBytesOrder
  /\ WriteBytesReturned => WriteBytesPost(last.io)

\* C20 amended: the steps run in that order; after a successful call during
\* which no other thread and not the victim changed the protection or the
\* contents of the region, the protection equals its value before the call
\* and the bytes equal the given bytes.
C20_WriteBytesUndisturbed ==
  /\ WriteBytesOrder
  /\ (WriteBytesReturned /\ last.io.alone) => WriteBytesPost(last.io)

\* C20 witness: hook() returns Ok after its write of the jump to the image
\* page, which was PAGE_READWRITE before the call and is again, while another
\* call is in progress.
C20_Witness ==
  /\ WriteBytesReturned
  /\ last.site = "h_jump"
  /\ last.io.alone
  /\ last.io.before = PAGE_READWRITE
  /\ last.io.old = PAGE_READWRITE
  /\ page["image"].Protect = PAGE_READWRITE
  /\ Len(last.io.trace) = 5
  /\ \E t \in Threads : th[t].pc # "idle"

\* write_bytes has just returned after a remote write that transferred fewer
\* bytes than requested.
ShortWriteReturned ==
  /\ last.site \in WriteSites
  /\ Len(last.io.trace) >= 3
  /\ last.io.n < Len(last.io.buf)

C22_BaseIsCtxAddr ==
  \A t \in Threads :
    (th[t].op \in {"read", "write"} /\ ~th[t].at_pointer
       /\ th[t].pc \in {"r_val", "w_val"})
      => th[t].io.addr = th[t].ctx_addr + th[t].offset

\* The 4 bytes b zero-extended to a host word of w bytes.
ZeroExtended(b, w) == b \o [i \in 1..(w - 4) |-> 0]

\* C23: with at_pointer = true the effective address is the 4 bytes at the
\* base, taken as an unsigned 32-bit pointer and zero-extended to the host
\* word, plus the offset: for every pointer value, those >= 0x80000000
\* included.
C23_PointerIsZeroExtended ==
  (unit.fn = "ptr" /\ unit.done
     /\ Carry(ZeroExtended(unit.bytes, unit.width), unit.offset) = 0)
    => /\ ~unit.out.panic
       /\ unit.out.addr
            = AddWord(ZeroExtended(unit.bytes, unit.width), unit.offset)

\* C24: write::<T>(hook, v, ctx) that returned Ok, followed by read::<T>(hook,
\* ctx) with the same ctx (at_pointer = false) and no write in between: the
\* read returns a value with the bit pattern of v, for types of 4 and 8 bytes.
C24_WriteReadRoundTrip ==
  (unit.fn = "roundtrip" /\ unit.wrote.set /\ unit.got.set
     /\ unit.got.ctx = unit.wrote.ctx)
    => unit.got.typed = unit.wrote.typed

\* C24 witness: the round trip of an 8-byte value and of 0xDEADBEEF.
C24_Witness ==
  /\ unit.fn = "roundtrip"
  /\ unit.wrote.set
  /\ unit.got.set
  /\ unit.got.ctx = unit.wrote.ctx
  /\ unit.wrote.typed \in { << 1, 2, 3, 65535 >>, << 48879, 57005 >> }
  /\ unit.got.typed = unit.wrote.typed
  /\ mem["var"] # [i \in 1..8 |-> 0]

\* C25: adding context to a failed result does not change the error variant;
\* only an Other error has its chain extended (by one entry per context).
C25_ContextKeepsVariant ==
  unit.fn = "context"
    => /\ unit.out.ok = unit.given.ok
       /\ unit.out.variant = unit.given.variant
       /\ unit.out.chain
            = IF unit.given.variant = "Other"
              THEN SubSeq(unit.out.chain, 1, unit.n) \o unit.given.chain
              ELSE unit.given.chain
       /\ Len(unit.out.chain)
            = Len(unit.given.chain)
                + (IF unit.given.variant = "Other" THEN unit.n ELSE 0)

\* C26: every OS-call failure in change_memory_protection, read_bytes,
\* write_bytes and wait_for_safe_mem reaches the caller as the WinAPI variant.
C26_OsFailureIsWinAPI ==
  (last.why = "os" /\ last.site \in ReadSites \cup WriteSites \cup {"h_protect"})
    => /\ last.err = "WinAPI"
       /\ last.res = "WinAPI"

\* Hook::new has returned.
NewReturned == unit.fn = "new" /\ unit.pc = "done"

\* C27: Hook::new fails with Other and allocates nothing when the module is
\* not found; on success hook_mem (hook_alloc_size bytes) and var_mem
\* (var_size bytes) are two distinct allocated regions and addr and
\* found_bytes are none; if the second allocation fails no Hook is returned
\* and the first region is released.
C27_NewAllocatesOrReleases ==
  NewReturned
    => /\ ~unit.module => (unit.res = "Other" /\ unit.remote = {})
       /\ unit.res = "Ok"
            => /\ unit.hook_mem.size = unit.hook_alloc_size
               /\ unit.var_mem.size = unit.var_size
               /\ unit.hook_mem.addr # unit.var_mem.addr
               /\ unit.remote = {unit.hook_mem, unit.var_mem}
               /\ unit.addr = NoneVal
               /\ unit.found_bytes = << >>
       /\ unit.why = "var_mem" => (unit.res # "Ok" /\ unit.remote = {})

\* C28: allocate_memory returns a MemoryRegion only with addr # 0 and the
\* requested size; a null result of the OS allocation yields a WinAPI error
\* and no MemoryRegion, so no release is ever attempted for address 0.
C28_RegionIsNeverNull ==
  /\ \A a \in {0} \cup AllocAddrs, n \in HookAllocSizes \cup VarSizes :
       LET o == allocate_memory(a, n)
       IN IF a = 0 THEN o.res = "WinAPI" /\ o.region = NoRegion
          ELSE o.res = "Ok" /\ o.region = [addr |-> a, size |-> n]
  /\ unit.fn = "new"
       => /\ 0 \notin unit.frees
          /\ \A g \in unit.remote : g.addr # 0
          /\ unit.pc \in {"alloc_var"} => unit.hook_mem.addr # 0
          /\ (unit.pc = "done" /\ unit.res = "Ok")
               => /\ unit.hook_mem = [addr |-> unit.hook_mem.addr,
                                       size |-> unit.hook_alloc_size]
                  /\ unit.var_mem = [addr |-> unit.var_mem.addr,
                                      size |-> unit.var_size]
                  /\ unit.hook_mem.addr # 0
                  /\ unit.var_mem.addr # 0
          /\ (unit.pc = "done" /\ unit.why \in {"hook_mem", "var_mem"})
               => /\ unit.res \in {"WinAPI", "TimeoutReached"}
                  /\ unit.var_mem = NoRegion

\* C28 witness: the second allocation returned null; Hook::new fails with
\* WinAPI and the only release attempted is that of hook_mem.
C28_Witness ==
  /\ NewReturned
  /\ unit.why = "var_mem"
  /\ unit.res = "WinAPI"
  /\ unit.frees # {}
  /\ 0 \notin unit.frees

\* a + b modulo 2^32 on 32-bit words given as << low, high >>.
U32Add(a, b) ==
  << (a[1] + b[1]) % 65536,
     (a[2] + b[2] + ((a[1] + b[1]) \div 65536)) % 65536 >>

\* The 32-bit word of a small integer k, negative k as 2^32 + k.
U32(k) == IF k < 0 THEN << 65536 + k, 65535 >> ELSE << k, 0 >>

\* The displacement in the four bytes of b that follow position i.
Disp(b, i) == << b[i + 1] + 256 * b[i + 2], b[i + 3] + 256 * b[i + 4] >>

\* C29: the default build_jmp fails when addr is none; otherwise, for every
\* pair of 32-bit addresses, it returns exactly 5 bytes, 0xE9 and the
\* little-endian displacement d with addr + 5 + d = cave.addr (mod 2^32),
\* without an overflow failure.
C29_JmpReachesCave ==
  (unit.fn = "jmp" /\ unit.pc = "build_jmp")
    => IF unit.addr = NoAddr THEN unit.res = "Err"
       ELSE /\ unit.res = "Ok"
            /\ Len(unit.out) = 5
            /\ unit.out[1] = 233
            /\ U32Add(U32Add(unit.addr, U32(5)), Disp(unit.out, 1)) = unit.cave

\* C30: when build_jmp(hook_data) succeeds with jmp_size bytes, end_jmp
\* appends 0xE9 and the displacement d with
\* cave.addr + (offset - 1) + jmp_size + d = target (mod 2^32), offset the
\* length of ops at the call, then nops - 1 nop bytes when nops >= 1 is given
\* and none when nops is absent.
C30_EndJmpReachesTarget ==
  (/\ unit.fn = "jmp"
   /\ unit.pc = "end_jmp"
   /\ \A j \in JmpOutcomes(unit.cave, unit.addr) : j.res = "Ok")
    => LET offset == Len(unit.ops)
           tail == IF unit.nops = NoneVal THEN 0
                   ELSE IF unit.nops >= 1 THEN unit.nops - 1 ELSE 0
       IN /\ unit.res = "Ok"
          /\ Len(unit.out) = offset + 5 + tail
          /\ SubSeq(unit.out, 1, offset) = unit.ops
          /\ unit.out[offset + 1] = 233
          /\ U32Add(U32Add(U32Add(unit.cave, U32(offset - 1)), U32(5)),
                    Disp(unit.out, offset + 1)) = unit.target
          /\ \A i \in 1..tail : unit.out[offset + 5 + i] = 144

\* C32: find_pattern_in_bytes(H, P) returns the empty sequence, without
\* panicking, whenever |H| < |P|, the empty haystack and a haystack that
\* matches a proper prefix of the pattern included.
C32_ShortHaystackIsEmpty ==
  (unit.fn = "find" /\ unit.done /\ Len(unit.H) < Len(unit.P))
    => (~unit.out.panic /\ unit.out.matches = << >>)

\* C40: the jump end_jmp emits at offset k of the cave is the instruction at
\* cave.addr + k .. cave.addr + k + 4; executed, it continues at the address
\* after it plus its displacement, which is exactly the target.
C40_ReturnJumpLandsOnTarget ==
  (unit.fn = "jmp" /\ unit.pc = "end_jmp" /\ unit.res = "Ok")
    => LET k == Len(unit.ops)
       IN U32Add(U32Add(U32Add(unit.cave, U32(k)), U32(5)),
                 Disp(unit.out, k + 1)) = unit.target

\* C31: zero() is write_bytes(addr, size zero bytes): a call that returns Ok
\* went through protect, wait, write, restore, wait, wrote all size bytes, and
\* leaves every byte of [addr, addr + size) zero.
C31_ZeroIsWriteBytes ==
  (unit.fn = "zero" /\ unit.pc = "done" /\ unit.res = "Ok")
    => /\ unit.trace
            = WriteBytesSteps([buf |-> [i \in 1..unit.size |-> 0],
                               old |-> unit.protect])
       /\ unit.n = unit.size
       /\ unit.bytes = [i \in 1..unit.size |-> 0]

\* The bytes the module had at [a, a + n) before any patch.
OriginalAt(a, n) ==
  LET img == CHOOSE i \in Images : TRUE
  IN SubSeq(img, a - data.module_addr + 1, a - data.module_addr + n)

\* C33: whenever found_bytes is set, it equals the never-patched original
\* bytes of the module at addr, over any sequence of hook() and unhook()
\* calls, hook() called twice without an unhook() in between included.
C33_FoundBytesAreOriginal ==
  data.found => data.found_bytes = OriginalAt(data.addr, Len(data.found_bytes))

\* C34: in every reachable state of a Hook driven through new, hook and
\* unhook, addr is set exactly when found_bytes is set, and unhook() never
\* returns the "called without pattern scanned" error.
C34_AddrIffFoundBytes ==
  /\ (data.addr # NoneVal) <=> data.found
  /\ ~(last.op = "unhook" /\ last.why = "no_scan")

\* C34 witness: unhook() returns Ok from its write of the unhook bytes, addr
\* and found_bytes both set by an earlier hook().
C34_Witness ==
  /\ last.op = "unhook"
  /\ last.res = "Ok"
  /\ last.why # "no_addr"
  /\ data.addr # NoneVal
  /\ data.found

\* C35: on every return of write_bytes after its first protection change
\* succeeded, while nothing else changed the region during the call, the page
\* protection is the one the page had before the call.
C35_ProtectionRestoredOnReturn ==
  (/\ last.site \in WriteSites
   /\ last.res # "none"
   /\ Len(last.io.trace) >= 1
   /\ last.io.alone)
    => PageAt(last.io.addr).Protect = last.io.before

\* C36: concurrent hook(), unhook(), read<T> and write<T> calls do not
\* deadlock: no thread holds the handle guard between two with_handle! blocks
\* (so none acquires it while holding it, and none requests the HookData lock
\* while holding it), and every call that has started eventually returns:
\* the calls being finitely many, from some point on no call is running.
C36_CallsReturn ==
  /\ [](guard \notin Threads)
  /\ <>[](\A t \in Threads : ~Busy(t))

\* C36 witness: a hook() waits for the write lock of HookData while another
\* call holds the read lock and is about to enter a with_handle! block.
C36_Witness ==
  \E t \in Threads, u \in Threads :
    /\ t # u
    /\ th[t].pc = "h_set"
    /\ u \in readers
    /\ NeedsGuard(th[u])

\* C37: no step of unhook() changes HookData (addr and found_bytes stay as
\* they are); a second unhook() that returns Ok directly after an unhook()
\* that returned Ok wrote the same bytes to the same address and leaves the
\* patch site as the first left it; a following hook() scans the image again
\* and stores the address and the bytes of its first match.
C37_UnhookIsIdempotent ==
  /\ [][(\/ last'.op = "unhook"
         \/ \E t \in Threads : th'[t].op = "unhook" /\ th'[t] # th[t])
          => data' = data]_vars
  /\ [](unit.fn = "unhooks" /\ unit.pair
          => /\ unit.prev.buf = unit.first.buf
             /\ unit.prev.addr = unit.first.addr
             /\ unit.prev.site = unit.first.site)
  /\ [][\A t \in Threads :
          (th[t].pc = "h_set" /\ th'[t].pc = "h_build")
            => /\ th[t].scans = 1
               /\ data'.addr = th[t].module + th[t].match[1]
               /\ data'.found_bytes = th[t].match[2]]_vars

\* C37 witness: the second of two successive unhook() calls has returned Ok.
C37_Witness ==
  /\ unit.fn = "unhooks"
  /\ unit.pair
  /\ unit.first.set
  /\ last.op = "unhook"
  /\ last.res = "Ok"

\* hook() or unhook() has just returned Ok after its write to the patch site.
PatchCallReturned ==
  last.op \in {"hook", "unhook"} /\ last.res = "Ok" /\ last.why = "-"

\* hook() changes the protection of the whole image to read-write and reads
\* the image afterwards.
ImageMadeReadWrite ==
  [][\A t \in Threads :
       (th[t].pc = "h_protect" /\ th'[t].pc = "h_read")
         => /\ page'.image.Protect = PAGE_READWRITE
            /\ th[t].module = data.module_addr
            /\ th[t].size = Len(mem.image)
            /\ th'[t].step = "wait1"]_vars

C39_ReadBytesReturnsTransferred ==
  [][\A t \in Threads :
       /\ (th[t].step # "read" /\ th'[t].step = "read") =>
            th[t].step = "wait1"
       /\ (th[t].pc = "h_read" /\ th[t].step = "read"
            /\ th'[t].pc = "h_read" /\ th'[t] # th[t]) =>
            /\ th'[t].step = "wait2"
            /\ th'[t].io.n <= th[t].io.size
            /\ th'[t].io.buf = Peek(th[t].io.addr, th[t].io.size)
       /\ (th[t].pc = "h_read" /\ th'[t].pc = "h_set") =>
            /\ th[t].step = "wait2"
            /\ os'.call = "VirtualQueryEx"
            /\ th[t].io.n <= th[t].io.size
            /\ Len(th'[t].image) = th[t].io.n
            /\ th'[t].image = SubSeq(th[t].io.buf, 1, th[t].io.n)]_vars

C39_Witness ==
  \E t \in Threads :
    /\ th[t].pc = "h_set"
    /\ th[t].io.n < th[t].io.size
    /\ Len(th[t].image) = th[t].io.n
    /\ th[t].image # << >>

====
